---------------------------- MODULE Spec2Model ----------------------------
(***************************************************************************)
(* A model of the MACRO-10 mini-assembler (src/modules/pdp10/lib/macro10.js)*)
(* as a state machine: the fields of the Macro10 object are the variables, *)
(* the callbacks of loadNextResource() are actions, parseResources() is a   *)
(* process whose loops advance one iteration per action, and parseLine()   *)
(* and everything it calls are operators on a record holding the object's  *)
(* fields.                                                                 *)
(*                                                                         *)
(* Numbers.  A JavaScript number n is the record [hi, lo] with             *)
(* n = hi * 2^18 + lo and 0 <= lo < 2^18, so that 36-bit words and the     *)
(* 32-bit results of JavaScript's bitwise operators are exact.             *)
(*                                                                         *)
(* Text.  A symbol name is a sequence of one-character strings.  Operand   *)
(* text is a sequence of tokens; a source line is a record of the groups   *)
(* that reLine captures.                                                   *)
(***************************************************************************)
EXTENDS Integers, Sequences, FiniteSets, TLC

VARIABLES
    asURLs,             \* this.asURLs, each URL standing for the lines of its resource
    sOptions,           \* this.sOptions
    iURL,               \* this.iURL
    aFetches,           \* the URLs (by index) that Web.getResource() is fetching
    nTimers,            \* the callbacks of setTimeout() that are due
    aDone,              \* the calls of this.done so far, as [code, url]
    asLines,            \* this.asLines: line, separator, line, ...
    addrLoad,           \* this.addrLoad
    addrStart,          \* this.addrStart
    tblMacros,          \* this.tblMacros
    tblSymbols,         \* this.tblSymbols
    aLiterals,          \* this.aLiterals
    aVariables,         \* this.aVariables
    aWords,             \* this.aWords
    aFixups,            \* this.aFixups
    nLine,              \* this.nLine
    nError,             \* this.nError
    nLiteral,           \* this.nLiteral
    nLocation,          \* this.nLocation
    nLocationScope,     \* this.nLocationScope
    stackScopes,        \* this.stackScopes
    sOperator,          \* this.sOperator
    nMacroDef,          \* this.nMacroDef
    sMacroDef,          \* this.sMacroDef
    dbgVars,            \* the host's variable table (dbg.setVariable)
    dbgUndefined,       \* the host's dbg.sUndefined
    aSaved,             \* parseResources: a = dbg.resetVariables()
    chASCII,            \* this.chASCII
    sASCII,             \* this.sASCII
    nWarnings,          \* number of lines printed by warning()
    sError,             \* the message of the error caught by parseResources
    pc,                 \* parseResources: the statement about to run
    iLine,              \* parseResources: i of the line loop
    nLocationLiterals,  \* parseResources: nLocationLiterals
    iLit,               \* parseResources: i of the literal loop
    iVar,               \* parseResources: i of the variable loop
    iFix,               \* parseResources: the next index forEach visits
    aPending,           \* aWords and aFixups as they were when the fixup pass began
    subst,              \* parseLine: the locals of the loop that replaces the parameters
    cpu,                \* CPUSim: the registers, resultZeroCarry and nStepCycles
    cpuStart,           \* the value of cpu before the first handler ran
    aOps                \* the handlers that have run, in order

loader == <<asURLs, sOptions, iURL, aFetches, nTimers, aDone>>

\* the variables of the substitution loop and of the CPU
others == <<subst, cpu, cpuStart, aOps>>

vars == <<asURLs, sOptions, iURL, aFetches, nTimers, aDone, asLines, addrLoad,
          addrStart, tblMacros, tblSymbols, aLiterals, aVariables, aWords, aFixups,
          nLine, nError, nLiteral, nLocation, nLocationScope, stackScopes, sOperator,
          nMacroDef, sMacroDef, dbgVars, dbgUndefined, aSaved, chASCII, sASCII,
          nWarnings, sError, pc, iLine, nLocationLiterals, iLit, iVar, iFix, aPending,
          subst, cpu, cpuStart, aOps>>

-----------------------------------------------------------------------------
(* JavaScript values *)

\* null and undefined, for the fields that hold an address
Null == -1
Undefined == -2

\* 2^18: the radix of the [hi, lo] representation
H18 == 262144
\* 2^14 and 2^13: the part of hi inside a 32-bit integer, and its sign bit
H14 == 16384
H13 == 8192

Min(a, b) == IF a < b THEN a ELSE b

\* the number n (a TLC integer) as [hi, lo]
Num(n) == [hi |-> n \div H18, lo |-> n % H18]

\* a number known to be small, as a TLC integer
Int32(w) == w.hi * H18 + w.lo

\* a + b
NumAdd(a, b) ==
    LET s == a.lo + b.lo
    IN  [hi |-> a.hi + b.hi + (s \div H18), lo |-> s % H18]

\* a < b
NumLess(a, b) == a.hi < b.hi \/ (a.hi = b.hi /\ a.lo < b.lo)

\* a hole of a sparse array of words
NoWord == [hi |-> 0, lo |-> -1]

RECURSIVE BitAnd(_, _)
BitAnd(a, b) ==
    IF a = 0 \/ b = 0 THEN 0
    ELSE (a % 2) * (b % 2) + 2 * BitAnd(a \div 2, b \div 2)

RECURSIVE BitOr(_, _)
BitOr(a, b) ==
    IF a = 0 THEN b
    ELSE IF b = 0 THEN a
    ELSE (IF a % 2 = 1 \/ b % 2 = 1 THEN 1 ELSE 0) + 2 * BitOr(a \div 2, b \div 2)

\* ToInt32 as an unsigned 32-bit pattern and back to the signed number
Bits32(w) == [hi |-> w.hi % H14, lo |-> w.lo]
Signed32(u) == [hi |-> IF u.hi >= H13 THEN u.hi - H14 ELSE u.hi, lo |-> u.lo]

\* JavaScript a & b and a | b: both operands pass through ToInt32
JsAnd(a, b) ==
    Signed32([hi |-> BitAnd(Bits32(a).hi, Bits32(b).hi),
              lo |-> BitAnd(Bits32(a).lo, Bits32(b).lo)])
JsOr(a, b) ==
    Signed32([hi |-> BitOr(Bits32(a).hi, Bits32(b).hi),
              lo |-> BitOr(Bits32(a).lo, Bits32(b).lo)])

-----------------------------------------------------------------------------
(* Sparse arrays: a function whose domain is the set of indexes in use *)

EmptyArray == << >>
ArrayPut(a, i, v) == [j \in (DOMAIN a) \cup {i} |-> IF j = i THEN v ELSE a[j]]
ArrayLength(a) == IF DOMAIN a = {} THEN 0 ELSE 1 + CHOOSE i \in DOMAIN a : \A j \in DOMAIN a : j <= i
WordAt(a, i) == IF i \in DOMAIN a THEN a[i] ELSE NoWord


-----------------------------------------------------------------------------
(* Names and operand text *)

LowerChars == <<"a","b","c","d","e","f","g","h","i","j","k","l","m",
                "n","o","p","q","r","s","t","u","v","w","x","y","z">>
UpperChars == <<"A","B","C","D","E","F","G","H","I","J","K","L","M",
                "N","O","P","Q","R","S","T","U","V","W","X","Y","Z">>
DigitChars == <<"0","1","2","3","4","5","6","7","8","9">>

UpperChar(ch) ==
    IF \E i \in 1..Len(LowerChars) : LowerChars[i] = ch
    THEN UpperChars[CHOOSE i \in 1..Len(LowerChars) : LowerChars[i] = ch]
    ELSE ch

\* String.prototype.toUpperCase
ToUpperCase(name) == [i \in 1..Len(name) |-> UpperChar(name[i])]

\* String.prototype.substr(0, n)
Substr0(name, n) == SubSeq(name, 1, Min(n, Len(name)))

\* Str.toDec(n, cch): n in decimal, cch digits with leading zeros
RECURSIVE ToDec(_, _)
ToDec(n, cch) ==
    IF cch = 0 THEN << >>
    ELSE Append(ToDec(n \div 10, cch - 1), DigitChars[(n % 10) + 1])

\* "" + n: the decimal digits of n >= 0
RECURSIVE NumberText(_)
NumberText(n) ==
    IF n < 10 THEN <<DigitChars[n + 1]>>
    ELSE Append(NumberText(n \div 10), DigitChars[(n % 10) + 1])

\* A token of operand text.  k: "num" (the numeral of v), "sym" (the symbol s;
\* h if a '#' follows it), "dot" (a period), "comma", "plus", "at", "lp", "rp",
\* and "lit" (a bracketed literal, whose text the line holds apart).
Tok(k, v, s, h) == [k |-> k, v |-> v, s |-> s, h |-> h]
TNum(v) == Tok("num", v, << >>, FALSE)
TSym(s) == Tok("sym", 0, s, FALSE)
TRes(s) == Tok("sym", 0, s, TRUE)
TDot == Tok("dot", 0, << >>, FALSE)
TComma == Tok("comma", 0, << >>, FALSE)
TPlus == Tok("plus", 0, << >>, FALSE)
TAt == Tok("at", 0, << >>, FALSE)
TLp == Tok("lp", 0, << >>, FALSE)
TRp == Tok("rp", 0, << >>, FALSE)
TLit == Tok("lit", 0, << >>, FALSE)

\* the token of the text in angle brackets that starts on the line, which the
\* line holds apart as it does the text of a literal
TBlk == Tok("blk", 0, << >>, FALSE)

\* '<' and '>' in the operands of a line, where they enclose a default or an
\* argument
TLt == Tok("lt", 0, << >>, FALSE)
TGt == Tok("gt", 0, << >>, FALSE)

\* the absent fixup (null or undefined)
NoFixup == << >>
FixupAt(a, i) == IF i \in DOMAIN a THEN a[i] ELSE NoFixup

\* positions of the tokens of kind k
Positions(toks, k) == {i \in 1..Len(toks) : toks[i].k = k}
FirstPos(toks, k) == CHOOSE i \in Positions(toks, k) : \A j \in Positions(toks, k) : i <= j

-----------------------------------------------------------------------------
(* The host (dbg): expression parser, instruction encoder, truncate *)

\* dbg.truncate(v, nBits, true)
DbgTruncate(v, nBits) ==
    IF nBits = 18 THEN [hi |-> 0, lo |-> v.lo]
    ELSE [hi |-> v.hi % H18, lo |-> v.lo]

\* an expression the host accepts: atom (+ atom)*, atom a numeral or a symbol
IsSum(toks) ==
    /\ Len(toks) % 2 = 1
    /\ \A i \in 1..Len(toks) :
        IF i % 2 = 1 THEN toks[i].k \in {"num", "sym"} /\ ~toks[i].h
        ELSE toks[i].k = "plus"

AtomKnown(t, tblVars) == t.k = "num" \/ t.s \in DOMAIN tblVars
AtomValue(t, tblVars) ==
    IF t.k = "num" THEN Num(t.v)
    ELSE IF t.s \in DOMAIN tblVars THEN tblVars[t.s]
    ELSE Num(0)

RECURSIVE SumValue(_, _)
SumValue(toks, tblVars) ==
    IF toks = << >> THEN Num(0)
    ELSE IF toks[1].k = "plus" THEN SumValue(Tail(toks), tblVars)
    ELSE NumAdd(AtomValue(toks[1], tblVars), SumValue(Tail(toks), tblVars))

\* the symbols of toks the host does not know, joined by '+'
RECURSIVE UndefinedPart(_, _)
UndefinedPart(toks, tblVars) ==
    IF toks = << >> THEN << >>
    ELSE LET rest == UndefinedPart(Tail(toks), tblVars)
         IN  IF toks[1].k = "plus" \/ AtomKnown(toks[1], tblVars) THEN rest
             ELSE IF rest = << >> THEN <<toks[1]>>
             ELSE <<toks[1], TPlus>> \o rest

\* dbg.parseExpression(sExp, fPass1): [ok, value, sUndefined]
DbgParseExpression(toks, tblVars, fPass1) ==
    LET sUndef == UndefinedPart(toks, tblVars)
    IN  IF ~IsSum(toks) \/ (sUndef # << >> /\ ~fPass1)
        THEN [ok |-> FALSE, value |-> Num(0), sUndefined |-> NoFixup]
        ELSE [ok |-> TRUE, value |-> SumValue(toks, tblVars), sUndefined |-> sUndef]

\* the PDP-10 instruction subfields (PDP10.OPCODE), as [hi, lo] masks
A_FIELD == [hi |-> 480, lo |-> 0]
I_FIELD == [hi |-> 16, lo |-> 0]
X_FIELD == [hi |-> 15, lo |-> 0]
Y_FIELD == [hi |-> 0, lo |-> H18 - 1]
OP_FIELD == [hi |-> 261632, lo |-> 0]

\* the opcodes of the mnemonics the host knows; -1 for any other operator
MOVE == <<"M","O","V","E">>
PUSHJ == <<"P","U","S","H","J">>
JRST == <<"J","R","S","T">>
HRRZI == <<"H","R","R","Z","I">>
CAIE == <<"C","A","I","E">>
Opcode(sOp) ==
    CASE sOp = << >> -> 0
      [] sOp = MOVE -> 128
      [] sOp = PUSHJ -> 176
      [] sOp = JRST -> 172
      [] sOp = HRRZI -> 361
      [] sOp = CAIE -> 194
      [] OTHER -> -1

\* the operand text of an instruction: [ac ,] [@] [y] [( x )]
InsnAc(toks) ==
    IF Positions(toks, "comma") # {} /\ FirstPos(toks, "comma") = 2 /\ toks[1].k = "num"
    THEN toks[1].v ELSE 0
InsnRest(toks) ==
    IF Positions(toks, "comma") # {} THEN SubSeq(toks, FirstPos(toks, "comma") + 1, Len(toks))
    ELSE toks
InsnInd(toks) == IF InsnRest(toks) # << >> /\ InsnRest(toks)[1].k = "at" THEN 1 ELSE 0
InsnAddr(toks) ==
    LET r == InsnRest(toks)
        a == IF InsnInd(toks) = 1 THEN Tail(r) ELSE r
    IN  IF Positions(a, "lp") # {} THEN SubSeq(a, 1, FirstPos(a, "lp") - 1) ELSE a
InsnIndex(toks) ==
    LET r == InsnRest(toks)
    IN  IF Positions(r, "lp") # {} /\ FirstPos(r, "lp") + 2 = Len(r)
           /\ r[Len(r)].k = "rp" /\ r[Len(r) - 1].k = "num"
        THEN r[Len(r) - 1].v ELSE 0
InsnWellFormed(toks) ==
    /\ Cardinality(Positions(toks, "comma")) <= 1
    /\ Positions(toks, "comma") # {} => FirstPos(toks, "comma") = 2 /\ toks[1].k = "num"
    /\ InsnAddr(toks) = << >> \/ IsSum(InsnAddr(toks))
    /\ LET r == InsnRest(toks)
       IN  Positions(r, "lp") # {} =>
               /\ FirstPos(r, "lp") + 2 = Len(r)
               /\ r[Len(r)].k = "rp" /\ r[Len(r) - 1].k = "num"

\* dbg.parseInstruction(sOp, sOperands, addr, true): [w, sUndefined]; w < 0 on failure
DbgParseInstruction(sOp, toks, tblVars) ==
    LET y == IF InsnAddr(toks) = << >>
             THEN [ok |-> TRUE, value |-> Num(0), sUndefined |-> NoFixup]
             ELSE DbgParseExpression(InsnAddr(toks), tblVars, TRUE)
    IN  IF Opcode(sOp) < 0 \/ ~InsnWellFormed(toks) \/ ~y.ok
        THEN [w |-> Num(-1), sUndefined |-> NoFixup]
        ELSE [w |-> [hi |-> Opcode(sOp) * 512 + (InsnAc(toks) % 16) * 32
                              + InsnInd(toks) * 16 + (InsnIndex(toks) % 16),
                     lo |-> y.value.lo],
              sUndefined |-> y.sUndefined]

-----------------------------------------------------------------------------
(* Macro10: constants *)

\* Macro10.SYMTYPE
SYMTYPE_LABEL == 1
SYMTYPE_PRIVATE == 2
SYMTYPE_INTERNAL == 4

\* Macro10.MACRO_OP
MACRO_OP_DEFINE == -1
MACRO_OP_OPDEF == -2
MACRO_OP_LITERAL == -3
MACRO_OP_RESERVED == -4

\* Macro10.PSEUDO_OP
PSEUDO_ASCII == <<"A","S","C","I","I">>
PSEUDO_ASCIZ == <<"A","S","C","I","Z">>
PSEUDO_SIXBIT == <<"S","I","X","B","I","T">>
PSEUDO_END == <<"E","N","D">>
PSEUDO_EXP == <<"E","X","P">>
PSEUDO_LOC == <<"L","O","C">>
PSEUDO_XWD == <<"X","W","D">>
PSEUDO_OPDEF == <<"O","P","D","E","F">>
PSEUDO_TITLE == <<"T","I","T","L","E">>
PSEUDO_REPEAT == <<"R","E","P","E","A","T">>
PSEUDO_DEFINE == <<"D","E","F","I","N","E">>
PSEUDO_IRP == <<"I","R","P">>
PSEUDO_IRPC == <<"I","R","P","C">>
PSEUDO_IFE == <<"I","F","E">>
PSEUDO_IFG == <<"I","F","G">>
PSEUDO_IFL == <<"I","F","L">>
PSEUDO_IFN == <<"I","F","N">>

-----------------------------------------------------------------------------
(* Macro10: the methods, as operators on the record m of the object's fields. *)
(* m.err is the message of the Error thrown ("" while none is): once it is    *)
(* set, every later step is skipped, as the throw unwinds to parseResources.  *)
(* Where a method uses an intermediate result more than once, the rest of the *)
(* method is an operator of its own that takes the result as a parameter.     *)

\* error(sError)
Error(m, sMsg, arg) == [m EXCEPT !.err = sMsg, !.errArg = arg]

\* truncate(value): the 36-bit word, and whether warning() is called
TruncateWord(value) == DbgTruncate(value, 36)
TruncateWarns(value) == value.hi < -(H18 \div 2) \/ value.hi >= H18

\* genWord(value, sFixup)
GenWord(m, value, sFixup) ==
    [m EXCEPT !.aWords = ArrayPut(m.aWords, m.nLocation, TruncateWord(value)),
              !.nWarnings = IF TruncateWarns(value) THEN @ + 1 ELSE @,
              !.aFixups = IF sFixup # NoFixup THEN ArrayPut(m.aFixups, m.nLocation, sFixup) ELSE @,
              !.nLocation = @ + 1]

RECURSIVE Pow2(_)
Pow2(n) == IF n = 0 THEN 1 ELSE 2 * Pow2(n - 1)

\* c * Math.pow(2, shift), for a character code c
CharShifted(c, shift) ==
    IF shift >= 18 THEN [hi |-> c * Pow2(shift - 18), lo |-> 0]
    ELSE Num(c * Pow2(shift))

\* sASCII.charCodeAt(i) & 0o177 (NaN & 0o177 = 0 beyond the end)
CharCodeAt(sText, i) == IF i < Len(sText) THEN sText[i + 1] % 128 ELSE 0

\* the 6-bit conversion without the fold of lower case to upper case
SixbitCodeUnfolded(c) == (c + 32) % 64

\* the 6-bit conversion: lower case to upper case, then adjust and mask
SixbitCode(c) == ((IF c >= 97 /\ c <= 122 THEN c - 32 ELSE c) + 32) % 64

\* the number of characters of the text alone
CharCountOfText(sOp, sText) == Len(sText)

\* the number of characters genASCII() packs
CharCount(sOp, sText) == Len(sText) + (IF sOp = PSEUDO_ASCIZ THEN 1 ELSE 0)

\* the character at index i as genASCII() packs it, and the bits it takes
CharBits(sOp) == IF sOp = PSEUDO_SIXBIT THEN 6 ELSE 7
CharPacked(sOp, sText, i) ==
    IF sOp = PSEUDO_SIXBIT THEN SixbitCode(CharCodeAt(sText, i)) ELSE CharCodeAt(sText, i)

\* genASCII(): the loop from index i, with n characters in the current word w
\* and shift the bits to left-shift the next character
RECURSIVE GenASCIIFrom(_, _, _, _, _, _)
GenASCIIFrom(m, sText, i, n, w, shift) ==
    IF i >= CharCount(m.sOperator, sText) THEN (IF n # 0 THEN GenWord(m, w, NoFixup) ELSE m)
    ELSE IF shift - CharBits(m.sOperator) < 0
         THEN GenASCIIFrom(GenWord(m, NumAdd(w, CharShifted(CharPacked(m.sOperator, sText, i), shift)),
                                   NoFixup),
                           sText, i + 1, 0, Num(0), 36 - CharBits(m.sOperator))
         ELSE GenASCIIFrom(m, sText, i + 1, n + 1,
                           NumAdd(w, CharShifted(CharPacked(m.sOperator, sText, i), shift)),
                           shift - CharBits(m.sOperator))

\* genASCII()
GenASCII(m) == GenASCIIFrom(m, m.sASCII, 0, 0, Num(0), 36 - CharBits(m.sOperator))

\* the two branches of the regular expression match at the head of parseExpression()
HasDoubleComma(toks) ==
    \E i \in 1..(Len(toks) - 1) : toks[i].k = "comma" /\ toks[i + 1].k = "comma"
MatchDoubleComma(toks) ==
    /\ Cardinality(Positions(toks, "comma")) = 2
    /\ HasDoubleComma(toks)
MatchLeft(toks) == SubSeq(toks, 1, FirstPos(toks, "comma") - 1)
MatchRight(toks) == SubSeq(toks, FirstPos(toks, "comma") + 2, Len(toks))

\* sOperand.replace(/\.([^0-9]|$)/g, dbg.toStrBase(nLocation, -1) + "$1")
ReplaceDot(toks, nLoc) == [i \in 1..Len(toks) |-> IF toks[i].k = "dot" THEN TNum(nLoc) ELSE toks[i]]

\* the halves of a double-comma value, the right one combined as it is
CombineHalvesSigned(wLeft, wRight) ==
    NumAdd([hi |-> DbgTruncate(wLeft, 18).lo, lo |-> 0], wRight)

\* the halves of a double-comma value, combined as unsigned 18-bit values
CombineHalves(wLeft, wRight) ==
    [hi |-> DbgTruncate(wLeft, 18).lo, lo |-> DbgTruncate(wRight, 18).lo]

\* the location that a period stands for
ExpressionLocation(m, nLoc) ==
    IF nLoc # Undefined THEN nLoc
    ELSE IF m.nLocationScope >= 0 THEN m.nLocationScope ELSE m.nLocation

\* parseExpression(): what becomes of the host's result r
HostResult(m, r) ==
    IF r.ok THEN [m |-> [m EXCEPT !.dbgUndefined = r.sUndefined], ok |-> TRUE, v |-> r.value]
    ELSE [m |-> Error([m EXCEPT !.dbgUndefined = r.sUndefined], "error parsing expression", << >>),
          ok |-> FALSE, v |-> Num(0)]

\* parseExpression(): the results l and r of the two halves, combined
CombineResults(l, r) ==
    IF ~l.ok THEN l
    ELSE IF ~r.ok THEN r
    ELSE [m |-> r.m, ok |-> TRUE, v |-> CombineHalves(l.v, r.v)]

\* parseExpression(sOperand, fPass1, nLocation): [m, ok, v]; ok is FALSE when
\* the result is undefined, which is when an Error was thrown
RECURSIVE ParseExpression(_, _, _, _)

\* one half of a double-comma value: 0 when it is empty
ParseHalf(m, toks, fPass1, nLoc) ==
    IF toks # << >> THEN ParseExpression(m, toks, fPass1, nLoc)
    ELSE [m |-> m, ok |-> TRUE, v |-> Num(0)]

\* the right half, parsed when the left half l is defined
ParseRightHalf(l, toks, fPass1, nLoc) ==
    CombineResults(l, IF l.ok THEN ParseHalf(l.m, MatchRight(toks), fPass1, nLoc) ELSE l)

ParseExpression(m, toks, fPass1, nLoc) ==
    IF ~MatchDoubleComma(toks)
    THEN HostResult(m, DbgParseExpression(ReplaceDot(toks, ExpressionLocation(m, nLoc)),
                                          m.dbgVars, fPass1))
    ELSE ParseRightHalf(ParseHalf(m, MatchLeft(toks), fPass1, nLoc), toks, fPass1, nLoc)

\* name.toUpperCase().substr(0, 6)
SymbolName(sName) == Substr0(ToUpperCase(sName), 6)

\* addSymbol(): the symbol entered in tblSymbols and given to the host
SetSymbol(m, name, value, nType) ==
    [m EXCEPT
        !.tblSymbols = [n \in (DOMAIN m.tblSymbols) \cup {name} |->
                           IF n = name
                           THEN [name |-> name, value |-> value, nType |-> nType, nLine |-> m.nLine]
                           ELSE m.tblSymbols[n]],
        !.dbgVars = [n \in (DOMAIN m.dbgVars) \cup {name} |->
                           IF n = name THEN value ELSE m.dbgVars[n]]]

\* addSymbol(name, value, nType) without its test for a label defined twice
AddSymbolUnchecked(m, sName, value, nType) == SetSymbol(m, SymbolName(sName), value, nType)

\* addSymbol(name, value, nType), value a number
AddSymbol(m, sName, value, nType) ==
    IF m.err # "" THEN m
    ELSE IF nType % 2 = SYMTYPE_LABEL /\ SymbolName(sName) \in DOMAIN m.tblSymbols
    THEN Error(m, "label redefined", SymbolName(sName))
    ELSE SetSymbol(m, SymbolName(sName), value, nType)

\* addSymbol(): the value r of the expression, entered
AddSymbolValue(r, sName, nType) ==
    IF ~r.ok THEN r.m ELSE SetSymbol(r.m, SymbolName(sName), r.v, nType)

\* addSymbol(name, value, nType), value a string: the expression is parsed first
AddSymbolText(m, sName, toks, nType) ==
    IF nType % 2 = SYMTYPE_LABEL /\ SymbolName(sName) \in DOMAIN m.tblSymbols
    THEN Error(m, "label redefined", SymbolName(sName))
    ELSE AddSymbolValue(ParseExpression(m, toks, FALSE, Undefined), sName, nType)

\* pushScope(name) without "this.nLocation = 0"
PushScopeInPlace(m, name) ==
    [m EXCEPT !.stackScopes = Append(@, [name |-> name, aWords |-> m.aWords, aFixups |-> m.aFixups,
                                         nLocation |-> m.nLocation,
                                         nLocationScope |-> m.nLocationScope, nLine |-> m.nLine]),
              !.aWords = EmptyArray,
              !.aFixups = EmptyArray,
              !.nLocationScope = IF m.nLocationScope < 0 THEN m.nLocation ELSE @]

\* pushScope(name): name is << >> when undefined
PushScope(m, name) ==
    [m EXCEPT !.stackScopes = Append(@, [name |-> name, aWords |-> m.aWords, aFixups |-> m.aFixups,
                                         nLocation |-> m.nLocation,
                                         nLocationScope |-> m.nLocationScope, nLine |-> m.nLine]),
              !.aWords = EmptyArray,
              !.aFixups = EmptyArray,
              !.nLocationScope = IF m.nLocationScope < 0 THEN m.nLocation ELSE @,
              !.nLocation = 0]

\* popScope() without "this.nLocation = scope.nLocation"
RestoreScopeButLocation(m, scope) ==
    [m EXCEPT !.aLiterals = IF scope.name # << >>
                            THEN Append(@, [name |-> scope.name, aWords |-> m.aWords,
                                            aFixups |-> m.aFixups])
                            ELSE @,
              !.stackScopes = SubSeq(@, 1, Len(@) - 1),
              !.aWords = scope.aWords,
              !.aFixups = scope.aFixups,
              !.nLocationScope = scope.nLocationScope]

\* popScope(): the literal recorded and the fields restored from scope
RestoreScope(m, scope) ==
    [m EXCEPT !.aLiterals = IF scope.name # << >>
                            THEN Append(@, [name |-> scope.name, aWords |-> m.aWords,
                                            aFixups |-> m.aFixups])
                            ELSE @,
              !.stackScopes = SubSeq(@, 1, Len(@) - 1),
              !.aWords = scope.aWords,
              !.aFixups = scope.aFixups,
              !.nLocation = scope.nLocation,
              !.nLocationScope = scope.nLocationScope]

\* popScope(): the test that follows the restore
CheckScope(m) ==
    IF m.stackScopes = << >> /\ m.nLocationScope # -1
    THEN Error(m, "scope restore error", << >>)
    ELSE m

\* popScope()
PopScope(m) ==
    IF m.err # "" THEN m
    ELSE IF m.stackScopes = << >> THEN Error(m, "scope nesting error", << >>)
    ELSE CheckScope(RestoreScope(m, m.stackScopes[Len(m.stackScopes)]))

-----------------------------------------------------------------------------
(* Source lines.  A line is the record of what reLine captures:            *)
(*   label  matchLine[1] without its colon (<< >> when absent)             *)
(*   op     matchLine[2]                                                   *)
(*   asg    the run of '=' and ':' that begins the operands, if any        *)
(*   ops    the operand text, as tokens; a "lit" token stands for the      *)
(*          bracketed text that starts on this line                        *)
(*   lit    the text that follows the '[' on this line (one piece), if any *)
(*   shut   whether a closing ']' ends the line's text                     *)
(*   str    the raw operand text of ASCII/ASCIZ/SIXBIT, as character codes, *)
(*          and the raw text of a line that follows while the string is     *)
(*          open, up to its closing delimiter                               *)
(*   rem    the text that follows the closing bracket or the closing        *)
(*          delimiter (one line), if any                                    *)

Line(label, op, asg, ops, lit, shut, str) ==
    [label |-> label, op |-> op, asg |-> asg, ops |-> ops, lit |-> lit, shut |-> shut, str |-> str,
     rem |-> << >>]
EmptyLine == Line(<< >>, << >>, << >>, << >>, << >>, FALSE, << >>)

\* the separator entries that split(/(\r?\n)/) leaves between the lines
Separator == [EmptyLine EXCEPT !.str = <<10>>]

\* the line that reLine finds in operand text given to parseText()
LineOfOperands(toks) ==
    IF toks # << >> /\ toks[1].k = "sym" /\ ~toks[1].h
    THEN [EmptyLine EXCEPT !.op = toks[1].s, !.ops = Tail(toks)]
    ELSE [EmptyLine EXCEPT !.ops = toks]

\* the text of a line without its closing bracket
Piece(line) == [line EXCEPT !.shut = FALSE]

\* sOperands.replace(sLiteral, name)
ReplaceLiteral(toks, name) == [i \in 1..Len(toks) |-> IF toks[i].k = "lit" THEN TSym(name) ELSE toks[i]]

\* sOperands.replace(",", ",,")
ReplaceFirstComma(toks) ==
    IF Positions(toks, "comma") = {} THEN toks
    ELSE SubSeq(toks, 1, FirstPos(toks, "comma")) \o <<TComma>>
             \o SubSeq(toks, FirstPos(toks, "comma") + 1, Len(toks))

\* the position of the first reserved symbol ("SYM#") of the operands
FirstReserved(toks) == CHOOSE i \in 1..Len(toks) : toks[i].h /\ \A j \in 1..(i - 1) : ~toks[j].h

\* getReserved(): the macro of the reserved symbol named sLabel
ReservedMacro(m, sLabel) ==
    [name |-> <<"?">> \o sLabel, nOperand |-> MACRO_OP_RESERVED,
     aParms |-> << >>, aDefaults |-> << >>, aValues |-> << >>,
     sText |-> <<[EmptyLine EXCEPT !.label = sLabel, !.ops = <<TNum(0)>>]>>,
     nLine |-> m.nLine]

\* getReserved(): the reserved symbol sLabel recorded
AddReserved(m, sLabel) ==
    IF (<<"?">> \o sLabel) \in DOMAIN m.tblMacros THEN m
    ELSE [m EXCEPT
            !.tblMacros = [n \in (DOMAIN m.tblMacros) \cup {<<"?">> \o sLabel} |->
                              IF n = <<"?">> \o sLabel THEN ReservedMacro(m, sLabel)
                              ELSE m.tblMacros[n]],
            !.aVariables = Append(@, <<"?">> \o sLabel)]

\* getReserved(sOperands), for the first reserved symbol of the operands
GetReserved(m, toks) == AddReserved(m, toks[FirstReserved(toks)].s)

\* sOperands.replace(sSymbol, sSymbol.slice(0, -1))
DropFirstHash(toks) == [toks EXCEPT ![FirstReserved(toks)].h = FALSE]

\* the while loop over getReserved() in parseLine(): [m, ops]
RECURSIVE ReservedLoop(_, _)
ReservedLoop(m, toks) ==
    IF \A i \in 1..Len(toks) : ~toks[i].h THEN [m |-> m, ops |-> toks]
    ELSE ReservedLoop(GetReserved(m, toks), DropFirstHash(toks))

\* the end of line that parseResources() and parseText() append to each line
CRLF == <<13, 10>>

\* defASCII(): the positions in text of the delimiter ch
Delimiters(text, ch) == {i \in 1..Len(text) : text[i] = ch}

\* defASCII(): the part of text that belongs to the string
StringPart(text, ch) ==
    IF Delimiters(text, ch) = {} THEN text
    ELSE SubSeq(text, 1, (CHOOSE i \in Delimiters(text, ch) : \A j \in Delimiters(text, ch) : i <= j) - 1)

\* defASCII(): text scanned for the delimiter ch of the open string
ScanASCII(m, text, ch) ==
    IF Delimiters(text, ch) = {}
    THEN [m EXCEPT !.chASCII = ch, !.sASCII = @ \o text]
    ELSE GenASCII([m EXCEPT !.chASCII = Null, !.sASCII = @ \o StringPart(text, ch)])

\* defASCII(sOperands), on character codes; chASCII is Null while no string is open.
\* The text that follows the closing delimiter is returned by the code to be
\* parsed as the rest of the line: it is the field rem of the line.
DefASCII(m, sOperands) ==
    IF m.chASCII = Null
    THEN ScanASCII([m EXCEPT !.sASCII = << >>], Tail(sOperands), sOperands[1])
    ELSE ScanASCII(m, sOperands, m.chASCII)

\* defEXP(): the word of the value r, generated
GenResult(r) ==
    IF r.ok THEN GenWord(r.m, r.v, r.m.dbgUndefined)
    ELSE IF r.m.err # "" THEN r.m
    ELSE Error(r.m, "unrecognized expression", << >>)

\* defEXP(sOperands)
DefEXP(m, toks) == GenResult(ParseExpression(m, toks, TRUE, Undefined))

\* defXWD(sOperands)
DefXWD(m, toks) == DefEXP(m, ReplaceFirstComma(toks))

SetLocationOn(r) == IF r.ok THEN [r.m EXCEPT !.nLocation = @ + Int32(r.v)] ELSE r.m

\* defLocation(): this.nLocation = r || 0
SetLocation(r) == IF r.ok THEN [r.m EXCEPT !.nLocation = Int32(r.v)] ELSE r.m

\* defLocation(sOperands)
DefLocation(m, toks) == SetLocation(ParseExpression(m, toks, FALSE, Undefined))

\* defEND(): this.addrStart = r
SetStart(r) == IF r.ok THEN [r.m EXCEPT !.addrStart = Int32(r.v)] ELSE r.m

\* defEND(sOperands)
DefEND(m, toks) ==
    IF toks = << >> THEN [m EXCEPT !.addrStart = m.addrLoad]
    ELSE SetStart(ParseExpression(m, toks, TRUE, Undefined))

\* defWord(): (sOperator + sSeparator + sOperands).trim()
WordExpression(sOp, toks) == (IF sOp # << >> THEN <<TSym(sOp)>> ELSE << >>) \o toks

\* defWord(): the word i of the host's parseInstruction(), or else the expression
DefWordOf(m, i, sExp) ==
    IF ~NumLess(i.w, Num(0))
    THEN GenWord([m EXCEPT !.dbgUndefined = i.sUndefined], i.w, i.sUndefined)
    ELSE GenResult(ParseExpression([m EXCEPT !.dbgUndefined = i.sUndefined], sExp, TRUE, Undefined))

\* defWord(sOperator, sSeparator, sOperands)
DefWord(m, sOp, toks) ==
    DefWordOf(m,
              IF HasDoubleComma(toks) THEN [w |-> Num(-1), sUndefined |-> m.dbgUndefined]
              ELSE DbgParseInstruction(sOp, ReplaceDot(toks, ExpressionLocation(m, Undefined)), m.dbgVars),
              WordExpression(sOp, toks))

-----------------------------------------------------------------------------
(* parseLine() and the methods that call it back *)

RECURSIVE ParseMacro(_, _, _, _)
RECURSIVE AppendMacro(_, _, _)
RECURSIVE ParseLineWith(_, _, _, _, _)

\* parseText(sText, aParms, aValues, aDefaults)
RECURSIVE ParseTextWith(_, _, _, _, _)
ParseTextWith(m, asText, aParms, aValues, aDefaults) ==
    IF asText = << >> \/ m.err # "" THEN m
    ELSE ParseTextWith(ParseLineWith(m, Head(asText), aParms, aValues, aDefaults),
                       Tail(asText), aParms, aValues, aDefaults)

\* getExpression(): cNesting after the first n tokens
RECURSIVE Nesting(_, _)
Nesting(toks, n) ==
    IF n = 0 THEN 0
    ELSE Nesting(toks, n - 1)
            + (IF toks[n].k = "lt" THEN 1 ELSE IF toks[n].k = "gt" THEN -1 ELSE 0)

\* getExpression(sOperands): the length of the text before the first comma
\* that no '<' encloses
ExpressionEnd(toks) ==
    IF \E i \in Positions(toks, "comma") : Nesting(toks, i - 1) = 0
    THEN (CHOOSE i \in Positions(toks, "comma") :
             /\ Nesting(toks, i - 1) = 0
             /\ \A j \in Positions(toks, "comma") : Nesting(toks, j - 1) = 0 => i <= j) - 1
    ELSE Len(toks)

\* getExpression(): no "missing bracket(s)" and no "extra bracket(s)" in toks
Bracketed(toks) ==
    /\ \A n \in 1..Len(toks) : Nesting(toks, n) >= 0
    /\ Nesting(toks, Len(toks)) = 0

\* sOperands.replace(/^\(?(.*?)\)?$/, "$1")
StripParens(toks) ==
    SubSeq(toks, IF toks # << >> /\ toks[1].k = "lp" THEN 2 ELSE 1,
                 IF toks # << >> /\ toks[Len(toks)].k = "rp" THEN Len(toks) - 1 ELSE Len(toks))

\* getValues(sOperands): the loop, which ends at the first empty operand
RECURSIVE GetValues(_)
GetValues(toks) ==
    IF toks = << >> \/ ExpressionEnd(toks) = 0 THEN << >>
    ELSE <<SubSeq(toks, 1, ExpressionEnd(toks))>>
            \o GetValues(SubSeq(toks, ExpressionEnd(toks) + 2, Len(toks)))

\* getDefaults(): aDefaults[i] for the parameter text parm; << >> when undefined
DefaultOf(parm) ==
    IF Positions(parm, "lt") = {} THEN << >>
    ELSE SubSeq(parm, FirstPos(parm, "lt"),
                (IF Positions(parm, "gt") = {} THEN Len(parm) + 1
                 ELSE CHOOSE k \in Positions(parm, "gt") : \A j \in Positions(parm, "gt") : j <= k) - 1)

\* getDefaults(): aParms[i] after the call, as the name it is
ParmOf(parm) ==
    IF Positions(parm, "lt") = {} THEN parm ELSE SubSeq(parm, 1, FirstPos(parm, "lt") - 1)
ParmName(parm) == IF ParmOf(parm) # << >> /\ ParmOf(parm)[1].k = "sym" THEN ParmOf(parm)[1].s ELSE << >>

\* getDefaults(aParms), and aParms after it
GetDefaults(aParms) == [i \in 1..Len(aParms) |-> DefaultOf(aParms[i])]
ParmNames(aParms) == [i \in 1..Len(aParms) |-> ParmName(aParms[i])]

\* parseLine(): aValues[iParm] || aDefaults[iParm] || ""
Replacement(aValues, aDefaults, iParm) ==
    IF iParm <= Len(aValues) /\ aValues[iParm] # << >> THEN aValues[iParm]
    ELSE IF iParm <= Len(aDefaults) THEN aDefaults[iParm]
    ELSE << >>

\* parseLine(): the symbols sParm of the operands replaced by sReplace
RECURSIVE ReplaceIn(_, _, _)
ReplaceIn(toks, sParm, sReplace) ==
    IF toks = << >> THEN << >>
    ELSE (IF toks[1].k = "sym" /\ toks[1].s = sParm THEN sReplace ELSE <<toks[1]>>)
            \o ReplaceIn(Tail(toks), sParm, sReplace)

\* parseLine(): sParm replaced in the line, the text in its brackets and the
\* text after them; parameters are looked for in operands.  On tokens every
\* whole symbol sParm is replaced, which is what the code does for the lines
\* that have the parameter once; the loop on characters is Search below.
RECURSIVE ReplaceParm(_, _, _)
ReplaceParm(line, sParm, sReplace) ==
    [line EXCEPT !.ops = ReplaceIn(@, sParm, sReplace),
                 !.lit = IF @ = << >> THEN @ ELSE <<ReplaceParm(@[1], sParm, sReplace)>>,
                 !.rem = IF @ = << >> THEN @ ELSE <<ReplaceParm(@[1], sParm, sReplace)>>]

\* parseLine(): the loop over aParms, from iParm on
RECURSIVE ReplaceParms(_, _, _, _, _)
ReplaceParms(line, aParms, aValues, aDefaults, iParm) ==
    IF iParm > Len(aParms) THEN line
    ELSE ReplaceParms(ReplaceParm(line, aParms[iParm], Replacement(aValues, aDefaults, iParm)),
                      aParms, aValues, aDefaults, iParm + 1)

\* the digits of n in base 8, as numerals
RECURSIVE OctalDigits(_)
OctalDigits(n) == IF n < 8 THEN <<TNum(n)>> ELSE Append(OctalDigits(n \div 8), TNum(n % 8))

\* the characters of a name, as tokens
NameChars(s) ==
    [i \in 1..Len(s) |-> IF \E d \in 0..9 : DigitChars[d + 1] = s[i]
                         THEN TNum(CHOOSE d \in 0..9 : DigitChars[d + 1] = s[i])
                         ELSE TSym(<<s[i]>>)]

\* String.prototype.split(""): the characters of the text, each a text
RECURSIVE SplitChars(_)
SplitChars(toks) ==
    IF toks = << >> THEN << >>
    ELSE (IF toks[1].k = "sym" THEN [i \in 1..Len(toks[1].s) |-> <<NameChars(toks[1].s)[i]>>]
          ELSE IF toks[1].k = "num"
          THEN [i \in 1..Len(OctalDigits(toks[1].v)) |-> <<OctalDigits(toks[1].v)[i]>>]
          ELSE <<<<toks[1]>>>>) \o SplitChars(Tail(toks))

\* parseText(sText): sText is the sequence of its lines
ParseText(m, asText) == ParseTextWith(m, asText, << >>, << >>, << >>)

\* parseLiteral(name, sText)
ParseLiteral(m, name, asText) == PopScope(ParseText(PushScope(m, name), asText))

\* the fixup of an OPDEF and the fixup of its operands, joined
JoinFixups(sOld, sFixup) ==
    IF sFixup = NoFixup THEN sOld
    ELSE IF sOld = NoFixup THEN sFixup
    ELSE sOld \o <<TPlus>> \o sFixup

\* the word w0 of an OPDEF merged with the word w of its operands
MergeOPDEF(w0, w) ==
    JsOr(NumAdd(w0, JsAnd(w, JsOr(JsOr(A_FIELD, X_FIELD), Y_FIELD))), JsAnd(w, I_FIELD))

\* the merge that leaves the word of the OPDEF alone when the operands gave no word
MergeOperandsIfAny(m, name, nLoc, w, sFixup) ==
    IF m.err # "" \/ w = NoWord THEN m
    ELSE [m EXCEPT !.aWords = ArrayPut(@, nLoc, MergeOPDEF(WordAt(m.aWords, nLoc), w)),
                   !.aFixups = IF JoinFixups(FixupAt(m.aFixups, nLoc), sFixup) # NoFixup
                               THEN ArrayPut(@, nLoc, JoinFixups(FixupAt(m.aFixups, nLoc), sFixup))
                               ELSE @]

\* parseMacro(), OPDEF: the word w and fixup sFixup of the operands merged at nLoc
MergeOperands(m, name, nLoc, w, sFixup) ==
    IF m.err # "" THEN m
    ELSE IF w = NoWord THEN Error(m, "OPDEF error", name)
    ELSE [m EXCEPT !.aWords = ArrayPut(@, nLoc, MergeOPDEF(WordAt(m.aWords, nLoc), w)),
                   !.aFixups = IF JoinFixups(FixupAt(m.aFixups, nLoc), sFixup) # NoFixup
                               THEN ArrayPut(@, nLoc, JoinFixups(FixupAt(m.aFixups, nLoc), sFixup))
                               ELSE @]

\* parseMacro(), OPDEF: m is the state after the operands were parsed in their scope
PopOperands(m, name, nLoc) ==
    IF m.err # "" THEN m
    ELSE MergeOperands(PopScope(m), name, nLoc, WordAt(m.aWords, 0), FixupAt(m.aFixups, 0))

\* parseMacro(), OPDEF: m is the state after the text of the OPDEF was parsed
ParseOperands(m, name, nLoc, toks) ==
    IF m.err # "" THEN m
    ELSE IF ~(nLoc < m.nLocation) THEN Error(m, "OPDEF error", name)
    ELSE PopOperands(ParseText(PushScope(m, << >>), <<LineOfOperands(toks)>>), name, nLoc)

\* parseMacro(name, sOperands), the OPDEF branch
ParseOPDEF(m, macro, toks) ==
    ParseOperands(ParseText(m, macro.sText), macro.name, m.nLocation, toks)

BlockTimesSwapped(sOp, nOperand) ==
    CASE sOp = PSEUDO_REPEAT -> nOperand
      [] sOp = PSEUDO_IFE -> IF nOperand = Num(0) THEN Num(1) ELSE Num(0)
      [] sOp = PSEUDO_IFG -> IF NumLess(nOperand, Num(0)) THEN Num(1) ELSE Num(0)
      [] sOp = PSEUDO_IFL -> IF NumLess(Num(0), nOperand) THEN Num(1) ELSE Num(0)
      [] sOp = PSEUDO_IFN -> IF nOperand # Num(0) THEN Num(1) ELSE Num(0)

\* parseMacro(name): how many times the text of the block is parsed; the
\* number of a REPEAT counted down to zero, and once for a condition that holds
BlockTimes(sOp, nOperand) ==
    CASE sOp = PSEUDO_REPEAT -> nOperand
      [] sOp = PSEUDO_IFE -> IF nOperand = Num(0) THEN Num(1) ELSE Num(0)
      [] sOp = PSEUDO_IFG -> IF NumLess(Num(0), nOperand) THEN Num(1) ELSE Num(0)
      [] sOp = PSEUDO_IFL -> IF NumLess(nOperand, Num(0)) THEN Num(1) ELSE Num(0)
      [] sOp = PSEUDO_IFN -> IF nOperand # Num(0) THEN Num(1) ELSE Num(0)

TextOnce(m, asText, n) ==
    IF m.err # "" \/ ~NumLess(Num(0), n) THEN m
    ELSE ParseText(m, asText)

\* parseText(macro.sText), n times
RECURSIVE TextTimes(_, _, _)
TextTimes(m, asText, n) ==
    IF m.err # "" \/ ~NumLess(Num(0), n) THEN m
    ELSE TextTimes(ParseText(m, asText), asText, NumAdd(n, Num(-1)))

\* while (macro.nOperand-- > 0): what the loop leaves in the macro, which is in
\* the table as long as no block of the same name was defined by the text
CountedDown(m, name, macro) ==
    IF m.err # "" \/ Tail(name) # PSEUDO_REPEAT \/ m.tblMacros[name].sText # macro.sText THEN m
    ELSE [m EXCEPT !.tblMacros[name].nOperand =
                       IF NumLess(Num(0), macro.nOperand) THEN Num(-1)
                       ELSE NumAdd(macro.nOperand, Num(-1))]

\* parseMacro(name), IRP and IRPC: parseText(macro.sText, macro.aParms,
\* [macro.aValues[i]], []) for each value
RECURSIVE TextForEach(_, _, _, _)
TextForEach(m, asText, aParms, aValues) ==
    IF aValues = << >> \/ m.err # "" THEN m
    ELSE TextForEach(ParseTextWith(m, asText, aParms, <<Head(aValues)>>, << >>),
                     asText, aParms, Tail(aValues))

\* parseMacro(name), name generated: the switch on the operator of the name
ExpandBlock(m, name, macro) ==
    IF Tail(name) \in {PSEUDO_IRP, PSEUDO_IRPC}
    THEN TextForEach(m, macro.sText, macro.aParms, macro.aValues)
    ELSE IF Tail(name) \in {PSEUDO_REPEAT, PSEUDO_IFE, PSEUDO_IFG, PSEUDO_IFL, PSEUDO_IFN}
    THEN CountedDown(TextTimes(m, macro.sText, BlockTimes(Tail(name), macro.nOperand)),
                     name, macro)
    ELSE ParseLiteral(m, name, macro.sText)

\* the value parseMacro() returns after a macro was expanded in state m
Expanded(m) == [m |-> m, f |-> m.err = ""]

\* parseMacro(): this.macroCall = macroPrev, when the text was parsed in
\* state m
CallReturns(m, macroPrev) == IF m.err # "" THEN m ELSE [m EXCEPT !.macroCall = macroPrev]

\* parseMacro(name, sOperands): the macro is called with the values aValues.
\* this.macroCall, a reference to the macro, is the name of the macro here.
CallWith(m, name, macro, aValues) ==
    CallReturns(ParseTextWith([m EXCEPT !.macroCall = name, !.tblMacros[name].aValues = aValues],
                              macro.sText, macro.aParms, aValues, macro.aDefaults),
                m.macroCall)

\* parseMacro(name, sOperands), for a macro that is no OPDEF
CallMacro(m, name, macro, toks) ==
    IF ~Bracketed(toks) THEN Error(m, "bracket(s)", << >>)
    ELSE CallWith(m, name, macro, GetValues(StripParens(toks)))

\* parseMacro(name, sOperands): [m, f], f the value returned.  fOperands tells
\* whether sOperands was passed.
ParseMacro(m, name, fOperands, toks) ==
    IF name \notin DOMAIN m.tblMacros THEN [m |-> m, f |-> FALSE]
    ELSE IF fOperands
         THEN Expanded(IF m.tblMacros[name].nOperand = MACRO_OP_OPDEF
                       THEN ParseOPDEF(m, m.tblMacros[name], toks)
                       ELSE CallMacro(m, name, m.tblMacros[name], toks))
    ELSE IF name[1] # "?" THEN [m |-> m, f |-> FALSE]
    ELSE [m |-> ExpandBlock(m, name, m.tblMacros[name]), f |-> TRUE]

\* the bracket that opens on the line: "lit" for '[', "blk" for '<', "" for none
OwnBracket(line) ==
    IF Positions(line.ops, "lit") # {} THEN "lit"
    ELSE IF Positions(line.ops, "blk") # {} THEN "blk"
    ELSE ""

\* this.chMacroOpen as defMacro() set it for the definition underway: '[' for a
\* literal or an OPDEF, '<' otherwise
ChMacroOpen(m) ==
    IF m.sMacroDef[1] = "?" /\ m.sMacroDef[2] \in {DigitChars[i] : i \in 1..Len(DigitChars)} THEN "lit"
    ELSE IF m.sMacroDef[1] # "?" /\ m.tblMacros[m.sMacroDef].nOperand = MACRO_OP_OPDEF THEN "lit"
    ELSE "blk"

\* appendMacro(): the brackets of kind ch that the text of line opens, less
\* those it closes.  The bracket that closes a line closes the bracket opened
\* on the line, or else is of the kind of the definition underway.
RECURSIVE NetBrackets(_, _)
NetBrackets(line, ch) ==
    (IF OwnBracket(line) = ch THEN 1 ELSE 0)
        + (IF line.lit # << >> THEN NetBrackets(line.lit[1], ch) ELSE 0)
        - (IF line.shut /\ OwnBracket(line) \in {ch, ""} THEN 1 ELSE 0)

\* appendMacro(): nMacroDef after text that leaves nDef brackets open and is
\* followed by a closing bracket when fShut
MacroDefAfter(nDef, fShut) ==
    IF ~fShut THEN nDef
    ELSE IF nDef - 1 = 1 THEN 0
    ELSE nDef - 1

\* appendMacro(): the definition that ended in state m is parsed
EndMacro(m, name) ==
    IF m.nMacroDef # 0 THEN m
    ELSE ParseMacro([m EXCEPT !.sMacroDef = << >>], name, FALSE, << >>).m

\* appendMacro(): the text piece, followed by a closing bracket when fShut, is
\* appended with nDef brackets open after piece; the closing bracket is part
\* of the text unless it ends the definition
AppendText(m, piece, fShut, nDef) ==
    EndMacro([m EXCEPT !.nMacroDef = MacroDefAfter(nDef, fShut),
                       !.tblMacros[m.sMacroDef].sText =
                           Append(@, IF fShut /\ MacroDefAfter(nDef, fShut) # 0
                                     THEN [piece EXCEPT !.shut = TRUE]
                                     ELSE [piece EXCEPT !.rem = << >>])],
             m.sMacroDef)

\* appendMacro(sLine): the text is piece, whose brackets are closed after
\* they are opened, followed by a closing bracket when fShut
AppendMacro(m, piece, fShut) ==
    AppendText(m, piece, fShut, m.nMacroDef + NetBrackets(piece, ChMacroOpen(m)))

\* the macro table with a new, empty definition of name
NewMacro(m, name, nOperand) ==
    [n \in (DOMAIN m.tblMacros) \cup {name} |->
        IF n = name
        THEN [name |-> name, nOperand |-> nOperand, aParms |-> << >>, aDefaults |-> << >>,
              aValues |-> << >>, sText |-> << >>, nLine |-> m.nLine]
        ELSE m.tblMacros[n]]

\* defMacro(): the definition of name entered, its opening bracket seen
OpenMacro(m, name, nOperand) ==
    [m EXCEPT !.nMacroDef = 2, !.sMacroDef = name, !.tblMacros = NewMacro(m, name, nOperand)]

\* the name of the literal numbered nLit
LiteralName(nLit) == <<"?">> \o ToDec(nLit, 5)

\* defMacro(PSEUDO_OP.LITERAL, sOperands), in the state m that has counted it
DefLiteralNamed(m, name, line) ==
    IF name \in DOMAIN m.tblMacros THEN Error(m, "literal symbol redefined", name)
    ELSE AppendMacro(OpenMacro(m, ToUpperCase(name), MACRO_OP_LITERAL), line.lit[1], line.shut)

\* defMacro(PSEUDO_OP.LITERAL, sOperands); it returns LiteralName(m.nLiteral + 1)
DefLiteral(m, line) ==
    DefLiteralNamed([m EXCEPT !.nLiteral = @ + 1], LiteralName(m.nLiteral + 1), line)

\* getExpression(sOperands): the text before the first comma
BlockExpression(toks) ==
    IF Positions(toks, "comma") = {} THEN toks
    ELSE SubSeq(toks, 1, FirstPos(toks, "comma") - 1)

\* sOperands.substr(sOperand.length + 1).match(/\s*(<|)([\s\S]*)/i)[1]: the
\* bracket is the first thing after the comma that ends the expression
BlockOpens(toks) ==
    /\ Positions(toks, "comma") # {}
    /\ FirstPos(toks, "comma") < Len(toks)
    /\ toks[FirstPos(toks, "comma") + 1].k = "blk"

\* defMacro(): the REPEAT or conditional block entered with the value r of its
\* expression; the definition starts on the line when its bracket is there
DefBlockOf(r, line, sOp) ==
    IF ~r.ok THEN r.m
    ELSE IF ~BlockOpens(line.ops)
    THEN [OpenMacro(r.m, <<"?">> \o sOp, r.v) EXCEPT !.nMacroDef = 1]
    ELSE AppendMacro(OpenMacro(r.m, <<"?">> \o sOp, r.v), line.lit[1], line.shut)

\* defMacro(sOperator, sOperands), sOperator REPEAT or a conditional
DefBlock(m, line, sOp) ==
    IF BlockExpression(line.ops) = << >> THEN Error(m, "missing expression", sOp)
    ELSE DefBlockOf(ParseExpression(m, BlockExpression(line.ops), FALSE, Undefined), line, sOp)

\* defMacro(PSEUDO_OP.OPDEF, sOperands)
DefOPDEF(m, line) ==
    IF ~(Len(line.ops) >= 2 /\ line.ops[1].k = "sym" /\ line.ops[2].k = "lit")
    THEN Error(m, "unrecognized OPDEF", << >>)
    ELSE AppendMacro(OpenMacro(m, ToUpperCase(line.ops[1].s), MACRO_OP_OPDEF),
                     line.lit[1], line.shut)

\* defMacro(): aParms, aDefaults and aValues of the macro name
WithParms(m, name, aParms, aDefaults, aValues) ==
    [m EXCEPT !.tblMacros[name].aParms = aParms,
              !.tblMacros[name].aDefaults = aDefaults,
              !.tblMacros[name].aValues = aValues]

\* defMacro(): the definition awaits its bracket, or starts on the line
BeginMacro(m, line) ==
    IF Positions(line.ops, "blk") = {} THEN [m EXCEPT !.nMacroDef = 1]
    ELSE AppendMacro(m, line.lit[1], line.shut)

\* defMacro(DEFINE): match[2], the parameters in their parentheses
ParmText(toks) ==
    IF Len(toks) >= 2 /\ toks[2].k = "lp" /\ Positions(toks, "rp") # {}
    THEN SubSeq(toks, 2, FirstPos(toks, "rp"))
    ELSE << >>

\* defMacro(DEFINE): the macro of the name with the parameters aParms
DefDEFINEOf(m, line, name, aParms) ==
    BeginMacro(WithParms(OpenMacro(m, name, MACRO_OP_DEFINE), name,
                         ParmNames(aParms), GetDefaults(aParms), << >>),
               line)

\* defMacro(PSEUDO_OP.DEFINE, sOperands)
DefDEFINE(m, line) ==
    IF line.ops = << >> \/ line.ops[1].k # "sym" THEN Error(m, "unrecognized DEFINE", << >>)
    ELSE IF ~Bracketed(StripParens(ParmText(line.ops))) THEN Error(m, "bracket(s)", << >>)
    ELSE DefDEFINEOf(m, line, ToUpperCase(line.ops[1].s), GetValues(StripParens(ParmText(line.ops))))

\* defMacro(IRP): the index from 1 of name in macroCall.aParms, 0 for none
ParmIndex(aParms, name) ==
    IF \E i \in 1..Len(aParms) : aParms[i] = name
    THEN CHOOSE i \in 1..Len(aParms) :
            aParms[i] = name /\ \A j \in 1..(i - 1) : aParms[j] # name
    ELSE 0

\* defMacro(IRP): the block with the values aValues of its parameter
DefIRPWith(m, line, sOp, aValues) ==
    BeginMacro(WithParms(OpenMacro(m, <<"?">> \o sOp, Num(Len(aValues))), <<"?">> \o sOp,
                         <<line.ops[1].s>>, << >>, aValues),
               line)

\* defMacro(IRP): i is the index of the parameter in the macro that is called
DefIRPOf(m, line, sOp, macro, i) ==
    IF i = 0 THEN Error(m, "invalid parameter", line.ops[1].s)
    ELSE IF sOp = PSEUDO_IRPC /\ i > Len(macro.aValues) THEN Error(m, "TypeError", << >>)
    ELSE IF sOp = PSEUDO_IRP /\ i <= Len(macro.aValues) /\ ~Bracketed(macro.aValues[i])
    THEN Error(m, "bracket(s)", << >>)
    ELSE DefIRPWith(m, line, sOp,
                    IF i > Len(macro.aValues) THEN << >>
                    ELSE IF sOp = PSEUDO_IRPC THEN SplitChars(macro.aValues[i])
                    ELSE GetValues(macro.aValues[i]))

\* defMacro(sOperator, sOperands), sOperator IRP or IRPC
DefIRP(m, line, sOp) ==
    IF m.macroCall = << >> THEN Error(m, "outside of macro", sOp)
    ELSE IF ~(Len(line.ops) >= 2 /\ line.ops[1].k = "sym" /\ line.ops[2].k = "comma")
    THEN Error(m, "unrecognized", sOp)
    ELSE DefIRPOf(m, line, sOp, m.tblMacros[m.macroCall],
                  ParmIndex(m.tblMacros[m.macroCall].aParms, line.ops[1].s))

\* parseLine(): the switch on the operator
ParseOperator(m, line, sOp, toks) ==
    CASE sOp \in {PSEUDO_ASCII, PSEUDO_ASCIZ, PSEUDO_SIXBIT} -> DefASCII(m, line.str \o CRLF)
      [] sOp = PSEUDO_END -> DefEND(m, toks)
      [] sOp = PSEUDO_EXP -> DefEXP(m, toks)
      [] sOp = PSEUDO_LOC -> DefLocation(m, toks)
      [] sOp = PSEUDO_XWD -> DefXWD(m, toks)
      [] sOp = PSEUDO_OPDEF -> DefOPDEF(m, line)
      [] sOp = PSEUDO_DEFINE -> DefDEFINE(m, line)
      [] sOp \in {PSEUDO_IRP, PSEUDO_IRPC} -> DefIRP(m, line, sOp)
      [] sOp \in {PSEUDO_REPEAT, PSEUDO_IFE, PSEUDO_IFG, PSEUDO_IFL, PSEUDO_IFN} ->
             DefBlock(m, line, sOp)
      [] sOp = PSEUDO_TITLE -> m
      [] OTHER -> DefWord(m, sOp, toks)

\* parseLine(): if (!this.parseMacro(sOperator, sOperands)) switch (sOperator),
\* pm the result of parseMacro()
ParseSwitch(pm, line, sOp, toks) ==
    IF pm.m.err # "" \/ pm.f THEN pm.m
    ELSE ParseOperator(pm.m, line, sOp, toks)

\* parseLine(): from parseMacro() on, r the result of the loop over getReserved()
ParseOperation(r, line, sOp) ==
    ParseSwitch(ParseMacro(r.m, sOp, TRUE, r.ops), line, sOp, r.ops)

\* the operands that are in the brackets of the line and after them, as far
\* as the first literal, which getLiteral() has replaced
RECURSIVE EnclosedTokens(_)
EnclosedTokens(line) ==
    IF Positions(line.ops, "lit") # {} THEN << >>
    ELSE (IF line.lit # << >> THEN line.lit[1].ops \o EnclosedTokens(line.lit[1]) ELSE << >>)
            \o (IF line.rem # << >> THEN line.rem[1].ops \o EnclosedTokens(line.rem[1]) ELSE << >>)

\* the loop over getReserved(), on the operands in the brackets of the line
ReservedIn(r, line) == [r EXCEPT !.m = ReservedLoop(r.m, EnclosedTokens(line)).m]

\* parseLine(): from the loop over getReserved() on, toks the operands
ParseOperandsOf(m, line, sOp, toks) ==
    IF m.err # "" THEN m
    ELSE ParseOperation(ReservedIn(ReservedLoop(m, toks), line), line, sOp)

\* getLiteral(sOperands): the line whose operands have the first '[' of the
\* text, which is the line itself or the text in its brackets; << >> for none
RECURSIVE LiteralLine(_)
LiteralLine(line) ==
    IF Positions(line.ops, "lit") # {} THEN <<line>>
    ELSE IF line.lit # << >> THEN LiteralLine(line.lit[1])
    ELSE << >>

\* parseLine(): from getLiteral() on
ParseFromLiteral(m, line, sOp) ==
    IF LiteralLine(line) = << >> /\ line.shut /\ Positions(line.ops, "blk") = {}
    THEN Error(m, "missing bracket(s)", << >>)
    ELSE ParseOperandsOf(IF LiteralLine(line) # << >> THEN DefLiteral(m, LiteralLine(line)[1])
                         ELSE m,
                         line, sOp,
                         IF LiteralLine(line) # << >>
                         THEN ReplaceLiteral(line.ops, ToUpperCase(LiteralName(m.nLiteral + 1)))
                         ELSE line.ops)

\* the type of the symbol that an assignment defines
AssignType(asg) ==
    IF asg = <<"=", "=">> THEN SYMTYPE_PRIVATE
    ELSE IF asg = <<"=", ":">> THEN SYMTYPE_INTERNAL
    ELSE 0

\* parseLine(): from the assignment on, in the state m that has the label
ParseFromAssignment(m, line, sOp) ==
    IF m.err # "" THEN m
    ELSE IF sOp # << >> /\ line.asg # << >>
    THEN AddSymbolText(m, sOp, line.ops, AssignType(line.asg))
    ELSE IF sOp = << >> /\ line.ops = << >> THEN m
    ELSE ParseFromLiteral([m EXCEPT !.sOperator = sOp], line, sOp)

\* the value of a label that is the location of the main program
LabelValueOfScope(m) == Num(IF m.nLocationScope >= 0 THEN m.nLocationScope ELSE m.nLocation)

\* parseLine(): the value of the label of a line, this.nLocation
LabelValue(m) == Num(m.nLocation)

\* parseLine(): from the label to the end, for a line outside a macro definition
ParseStatement(m, line) ==
    ParseFromAssignment(IF line.label # << >>
                        THEN AddSymbol(m, line.label, LabelValue(m), SYMTYPE_LABEL)
                        ELSE m,
                        line, ToUpperCase(line.op))

\* parseLine(): the text that a line adds to the definition that is open, and
\* whether the bracket that closes the line ends that text
CapturedPiece(m, line) ==
    IF m.nMacroDef = 1 THEN line.lit[1]
    ELSE IF OwnBracket(line) = "" THEN Piece(line)
    ELSE line
CapturedShut(m, line) == (m.nMacroDef = 1 \/ OwnBracket(line) = "") /\ line.shut

\* parseLine(): a definition is open, or awaits its opening bracket
AwaitedMacro(m, line) ==
    IF m.nMacroDef = 1 /\ Positions(line.ops, "blk") = {}
    THEN Error(m, "expected definition", m.sOperator)
    ELSE AppendMacro(IF m.nMacroDef = 1 THEN [m EXCEPT !.nMacroDef = 2] ELSE m,
                     CapturedPiece(m, line), CapturedShut(m, line))

\* no line is taken to have the delimiter of the string
ClosesStringNever(m, line) == FALSE

\* parseLine(): the line has the delimiter of the string that is open
ClosesString(m, line) == Delimiters(line.str \o CRLF, m.chASCII) # {}

\* parseLine(): when the definition or the string has ended in state m, the
\* text that follows its closing bracket or delimiter on the line is parsed
\* as a line
ParseRemain(m, line, fShut, aParms, aValues, aDefaults) ==
    IF m.err # "" \/ m.nMacroDef # 0 \/ ~fShut \/ line.rem = << >> THEN m
    ELSE ParseLineWith(m, line.rem[1], aParms, aValues, aDefaults)

\* parseLine(sLine, aParms, aValues, aDefaults): the parameters are replaced
\* in a line that is parsed, unless its operator is IRP or IRPC
ParseLineWith(m, line, aParms, aValues, aDefaults) ==
    IF m.err # "" THEN m
    ELSE IF m.nMacroDef # 0 \/ m.chASCII # Null
    THEN ParseRemain(IF m.nMacroDef # 0 THEN AwaitedMacro(m, line) ELSE DefASCII(m, line.str \o CRLF),
                     line,
                     IF m.nMacroDef # 0 THEN CapturedShut(m, line) ELSE ClosesString(m, line),
                     aParms, aValues, aDefaults)
    ELSE ParseStatement(m, IF ToUpperCase(line.op) \in {PSEUDO_IRP, PSEUDO_IRPC} THEN line
                           ELSE ReplaceParms(line, aParms, aValues, aDefaults, 1))

\* parseLine(sLine)
ParseLine(m, line) == ParseLineWith(m, line, << >>, << >>, << >>)

-----------------------------------------------------------------------------
(* parseResources() *)

\* the fields of the Macro10 object (and of the host) that parseLine() reads and writes
This ==
    [addrLoad |-> addrLoad, addrStart |-> addrStart, tblMacros |-> tblMacros,
     tblSymbols |-> tblSymbols, aLiterals |-> aLiterals, aVariables |-> aVariables,
     aWords |-> aWords, aFixups |-> aFixups, nLine |-> nLine, nLiteral |-> nLiteral,
     nLocation |-> nLocation, nLocationScope |-> nLocationScope,
     stackScopes |-> stackScopes, sOperator |-> sOperator, nMacroDef |-> nMacroDef,
     sMacroDef |-> sMacroDef, dbgVars |-> dbgVars, dbgUndefined |-> dbgUndefined,
     chASCII |-> chASCII, sASCII |-> sASCII, nWarnings |-> nWarnings,
     macroCall |-> << >>, err |-> "", errArg |-> << >>]

\* the first index of aFixups that forEach visits from index i on, or -1
NextFixup(a, i) ==
    IF \E k \in DOMAIN a : k >= i
    THEN CHOOSE k \in DOMAIN a : k >= i /\ \A j \in DOMAIN a : j >= i => k <= j
    ELSE -1

\* the statement that follows the loops that are over, in the state m
AfterVariables(m) == IF NextFixup(m.aFixups, 0) >= 0 THEN "fixups" ELSE "restore"
AfterLiterals(m, i) == IF i < Len(m.aVariables) THEN "variables" ELSE AfterVariables(m)

\* parseResources() with the loop over aVariables before the loop over aLiterals
AfterCheckVariablesFirst(m, i) == AfterLiterals(m, i)

AfterCheck(m, i) == IF i < Len(m.aLiterals) THEN "literals" ELSE AfterLiterals(m, 0)

CaughtNever(m, pcNext) == pcNext

\* try ... catch(err): the statement that runs next, pcNext unless an Error was
\* thrown
Caught(m, pcNext) == IF m.err # "" THEN "restore" ELSE pcNext

\* The object's fields become those of m and control moves to pcNext; when m
\* holds a thrown Error, the catch block runs instead (println, nError = -1).
Continue(m, pcNext) ==
    /\ addrStart' = m.addrStart
    /\ tblMacros' = m.tblMacros
    /\ tblSymbols' = m.tblSymbols
    /\ aLiterals' = m.aLiterals
    /\ aVariables' = m.aVariables
    /\ aWords' = m.aWords
    /\ aFixups' = m.aFixups
    /\ nLine' = m.nLine
    /\ nLiteral' = m.nLiteral
    /\ nLocation' = m.nLocation
    /\ nLocationScope' = m.nLocationScope
    /\ stackScopes' = m.stackScopes
    /\ sOperator' = m.sOperator
    /\ nMacroDef' = m.nMacroDef
    /\ sMacroDef' = m.sMacroDef
    /\ dbgVars' = m.dbgVars
    /\ dbgUndefined' = m.dbgUndefined
    /\ chASCII' = m.chASCII
    /\ sASCII' = m.sASCII
    /\ nWarnings' = m.nWarnings
    /\ sError' = IF m.err # "" THEN [msg |-> m.err, arg |-> m.errArg, nLine |-> m.nLine] ELSE sError
    /\ nError' = IF m.err # "" THEN -1 ELSE nError
    /\ pc' = Caught(m, pcNext)
    /\ aPending' = IF m.err = "" /\ pcNext = "fixups" /\ pc # "fixups"
                   THEN [aWords |-> m.aWords, aFixups |-> m.aFixups]
                   ELSE aPending
    /\ UNCHANGED <<asLines, addrLoad, aSaved>>
    /\ UNCHANGED loader
    /\ UNCHANGED others

\* the fields that only parseResources() and what it calls assign
assembly == <<addrLoad, addrStart, tblMacros, tblSymbols, aLiterals, aVariables, aWords,
              aFixups, nLine, nError, nLiteral, nLocation, nLocationScope, stackScopes,
              sOperator, nMacroDef, sMacroDef, dbgVars, dbgUndefined, aSaved, chASCII,
              sASCII, nWarnings, sError, iLine, nLocationLiterals, iLit, iVar, iFix,
              aPending>>

\* the lines of a resource, as sText.split(/(\r?\n)/) stores them
RECURSIVE Split(_)
Split(lines) ==
    IF Len(lines) <= 1 THEN lines
    ELSE <<Head(lines), Separator>> \o Split(Tail(lines))

\* no callback is running: the callbacks of the host run one at a time, each
\* to its end
Idle == pc \in {"load", "printed", "done"}

\* the error codes of Web.getResource()
ErrorCodes == {404}

DoneTwice(calls, nErrorCode, sURL) ==
    calls \o <<[code |-> nErrorCode, url |-> sURL], [code |-> nErrorCode, url |-> sURL]>>

\* this.done(nErrorCode, sURL): the call, recorded
Done(calls, nErrorCode, sURL) == Append(calls, [code |-> nErrorCode, url |-> sURL])

AllLoadedFirst(i, urls) == i >= 1

\* loadNextResource(): this.iURL == this.asURLs.length
AllLoaded(i, urls) == i = Len(urls)

\* the callback of Web.getResource(), nErrorCode zero: the lines of the resource
\* are appended and loadNextResource() is set to run
FetchSucceeds ==
    /\ Idle
    /\ \E k \in aFetches :
          /\ aFetches' = aFetches \ {k}
          /\ asLines' = asLines \o Split(asURLs[k])
    /\ nTimers' = nTimers + 1
    /\ UNCHANGED <<asURLs, sOptions, iURL, aDone, pc, assembly>>
    /\ UNCHANGED others

\* the callback of Web.getResource(), nErrorCode not zero
FetchFails ==
    /\ Idle
    /\ \E k \in aFetches, nErrorCode \in ErrorCodes :
          /\ aFetches' = aFetches \ {k}
          /\ aDone' = Done(aDone, nErrorCode, k)
    /\ UNCHANGED <<asURLs, sOptions, iURL, nTimers, asLines, pc, assembly>>
    /\ UNCHANGED others

\* loadNextResource(), called by the timer: the next URL is fetched, or, all
\* being loaded, parseResources() is entered; with the option 'p' it returns 0
\* at once
LoadNextResource ==
    /\ Idle
    /\ nTimers > 0
    /\ nTimers' = nTimers - 1
    /\ IF ~AllLoaded(iURL, asURLs)
       THEN /\ iURL' = iURL + 1
            /\ aFetches' = aFetches \cup {iURL + 1}
            /\ UNCHANGED <<pc, aDone>>
       ELSE /\ pc' = IF sOptions = "p" THEN "printed" ELSE "start"
            /\ aDone' = IF sOptions = "p" THEN Done(aDone, 0, Undefined) ELSE aDone
            /\ UNCHANGED <<iURL, aFetches>>
    /\ UNCHANGED <<asURLs, sOptions, asLines, assembly>>
    /\ UNCHANGED others

\* var a = this.dbg.resetVariables()
Begin ==
    /\ pc = "start"
    /\ aSaved' = dbgVars
    /\ dbgVars' = << >>
    /\ pc' = "walk"
    /\ UNCHANGED loader
    /\ UNCHANGED others
    /\ UNCHANGED <<asLines, addrLoad, addrStart, tblMacros, tblSymbols, aLiterals,
                   aVariables, aWords, aFixups, nLine, nError, nLiteral, nLocation,
                   nLocationScope, stackScopes, sOperator, nMacroDef, sMacroDef,
                   dbgUndefined, chASCII, sASCII, nWarnings, sError, iLine,
                   nLocationLiterals, iLit, iVar, iFix, aPending>>

\* the loop over asLines: whether it ends after the line that left the state m
WalkEnds(m) == m.addrStart # Null \/ ~(iLine + 2 < Len(asLines))

\* the loop over asLines, after parseLine() left the state m
WalkOn(m) ==
    /\ Continue(m, IF WalkEnds(m) THEN "check" ELSE "walk")
    /\ iLine' = IF WalkEnds(m) \/ m.err # "" THEN iLine ELSE iLine + 2

\* one iteration of the loop over asLines
Walk ==
    /\ pc = "walk"
    /\ WalkOn(ParseLine([This EXCEPT !.nLine = @ + 1], asLines[iLine + 1]))
    /\ UNCHANGED <<nLocationLiterals, iLit, iVar, iFix>>

CheckOpenSkipped(m) == m

\* the checks that follow the loop, and let nLocationLiterals = this.nLocation
CheckOpenError(m) ==
    IF m.nMacroDef # 0
    THEN Error(m, "open block from line", NumberText(m.tblMacros[m.sMacroDef].nLine))
    ELSE IF m.stackScopes # << >>
    THEN Error(m, "open scope from line", NumberText(m.stackScopes[1].nLine))
    ELSE m
CheckOpen ==
    /\ pc = "check"
    /\ Continue(CheckOpenError(This), AfterCheck(This, 0))
    /\ nLocationLiterals' = nLocation
    /\ iLit' = 0
    /\ iVar' = 0
    /\ iFix' = 0
    /\ UNCHANGED iLine

\* whether the words of lit are one contiguous zero-based run
LiteralContiguous(lit) == \A n \in DOMAIN lit.aWords : n < Cardinality(DOMAIN lit.aWords)

\* the inner loop of the search: whether lit matches the words emitted at nLoc
LiteralMatches(m, lit, nLoc) ==
    \A n \in 0..(Cardinality(DOMAIN lit.aWords) - 1) :
        /\ WordAt(lit.aWords, n) = WordAt(m.aWords, nLoc + n)
        /\ FixupAt(lit.aFixups, n) = FixupAt(m.aFixups, nLoc)

\* the locations the search would accept, from nLocationLiterals on
CollapseLocations(m, lit, nLocLiterals) ==
    {nLoc \in nLocLiterals..(m.nLocation - Cardinality(DOMAIN lit.aWords)) :
        LiteralContiguous(lit) /\ LiteralMatches(m, lit, nLoc)}

\* lit.aWords.forEach(genWord(w, lit.aFixups[nLocation])), from index n on
RECURSIVE EmitLiteral(_, _, _)
EmitLiteral(m, lit, n) ==
    IF m.err # "" \/ \A k \in DOMAIN lit.aWords : k < n THEN m
    ELSE IF n \in DOMAIN lit.aWords
         THEN EmitLiteral(GenWord(m, lit.aWords[n], FixupAt(lit.aFixups, n)), lit, n + 1)
         ELSE EmitLiteral(m, lit, n + 1)

\* the body of the loop over aLiterals, found the locations the search accepts
PlaceLiteralIn(m, lit, found) ==
    IF found # {}
    THEN AddSymbol(m, lit.name, Num(CHOOSE p \in found : \A q \in found : p <= q), SYMTYPE_LABEL)
    ELSE EmitLiteral(AddSymbol(m, lit.name, Num(m.nLocation), SYMTYPE_LABEL), lit, 0)

\* the body of the loop over aLiterals
PlaceLiteralAt(m, lit, nLocLiterals) ==
    PlaceLiteralIn(m, lit, CollapseLocations(m, lit, nLocLiterals))

\* the loop over aLiterals, after its body left the state m
LiteralsOn(m) ==
    Continue(m, IF iLit + 1 < Len(aLiterals) THEN "literals" ELSE AfterLiterals(m, 0))

PlaceLiteral ==
    /\ pc = "literals"
    /\ LiteralsOn(PlaceLiteralAt(This, aLiterals[iLit + 1], nLocationLiterals))
    /\ iLit' = iLit + 1
    /\ UNCHANGED <<iLine, nLocationLiterals, iVar, iFix>>

\* the body of the loop over aVariables
PlaceVariableAt(m, name) ==
    IF name \notin DOMAIN m.tblMacros THEN Error(m, "missing definition for variable", name)
    ELSE ParseText(m, m.tblMacros[name].sText)

\* the loop over aVariables, after its body left the state m
VariablesOn(m) ==
    Continue(m, IF iVar + 1 < Len(aVariables) THEN "variables" ELSE AfterVariables(m))

PlaceVariable ==
    /\ pc = "variables"
    /\ VariablesOn(PlaceVariableAt(This, aVariables[iVar + 1]))
    /\ iVar' = iVar + 1
    /\ UNCHANGED <<iLine, nLocationLiterals, iLit, iFix>>

\* processFixup(): value += aWords[nLocation]; aWords[nLocation] = truncate(value)
ApplyFixup(m, nLoc, value) ==
    [m EXCEPT !.aWords = ArrayPut(@, nLoc, TruncateWord(value)),
              !.nWarnings = IF TruncateWarns(value) THEN @ + 1 ELSE @]

\* processFixup() storing the value of the fixup in place of the sum
ResolveFixupOverwrite(r, nLoc) ==
    IF ~r.ok THEN r.m ELSE ApplyFixup(r.m, nLoc, r.v)

\* processFixup(): the value r of the expression, applied
ResolveFixup(r, nLoc) ==
    IF ~r.ok THEN r.m
    ELSE ApplyFixup(r.m, nLoc, NumAdd(r.v, WordAt(r.m.aWords, nLoc)))

\* processFixup(sValue, nLocation)
ProcessFixupAt(m, nLoc) ==
    ResolveFixup(ParseExpression(m, m.aFixups[nLoc], FALSE, nLoc), nLoc)

ProcessFixup ==
    /\ pc = "fixups"
    /\ Continue(ProcessFixupAt(This, NextFixup(aFixups, iFix)),
                IF NextFixup(aFixups, NextFixup(aFixups, iFix) + 1) >= 0 THEN "fixups" ELSE "restore")
    /\ iFix' = NextFixup(aFixups, iFix) + 1
    /\ UNCHANGED <<iLine, nLocationLiterals, iLit, iVar>>

ReturnUnrestored ==
    /\ pc = "restore"
    /\ dbgVars' = dbgVars
    /\ pc' = "done"
    /\ aDone' = Done(aDone, nError, Undefined)
    /\ UNCHANGED <<asURLs, sOptions, iURL, aFetches, nTimers>>
    /\ UNCHANGED others
    /\ UNCHANGED <<asLines, addrLoad, addrStart, tblMacros, tblSymbols, aLiterals,
                   aVariables, aWords, aFixups, nLine, nError, nLiteral, nLocation,
                   nLocationScope, stackScopes, sOperator, nMacroDef, sMacroDef,
                   dbgUndefined, aSaved, chASCII, sASCII, nWarnings, sError, iLine,
                   nLocationLiterals, iLit, iVar, iFix, aPending>>

\* this.dbg.restoreVariables(a); return this.nError
Return ==
    /\ pc = "restore"
    /\ dbgVars' = aSaved
    /\ pc' = "done"
    /\ aDone' = Done(aDone, nError, Undefined)
    /\ UNCHANGED <<asURLs, sOptions, iURL, aFetches, nTimers>>
    /\ UNCHANGED others
    /\ UNCHANGED <<asLines, addrLoad, addrStart, tblMacros, tblSymbols, aLiterals,
                   aVariables, aWords, aFixups, nLine, nError, nLiteral, nLocation,
                   nLocationScope, stackScopes, sOperator, nMacroDef, sMacroDef,
                   dbgUndefined, aSaved, chASCII, sASCII, nWarnings, sError, iLine,
                   nLocationLiterals, iLit, iVar, iFix, aPending>>

Next ==
    \/ FetchSucceeds \/ FetchFails \/ LoadNextResource
    \/ Begin \/ Walk \/ CheckOpen \/ PlaceLiteral \/ PlaceVariable \/ ProcessFixup \/ Return

-----------------------------------------------------------------------------
(* parseLine(): the loop that replaces the parameters, on characters.      *)
(* A line is the sequence of its characters; the record subst holds the    *)
(* locals of parseLine() and the statement that runs next:                 *)
(*   at = "match"   the head of while (fParse), before sLine.match(reLine) *)
(*   at = "parm"    the head of the loop over aParms                       *)
(*   at = "search"  the head of while (iSearch < iLimit)                   *)
(*   at = "parsed"  after the loop                                         *)
(* fParms is false when aParms is null; cchComment is the                  *)
(* length of matchLine[5]; nMatch counts the calls of sLine.match(reLine); *)
(* sText is the line as it was given.                                      *)

\* isSymbolChar(ch)
SymbolChars ==
    {DigitChars[i] : i \in 1..Len(DigitChars)} \cup {UpperChars[i] : i \in 1..Len(UpperChars)}
        \cup {LowerChars[i] : i \in 1..Len(LowerChars)} \cup {"$", "%", "."}
IsSymbolChar(ch) == ch \in SymbolChars

\* String.prototype.substr(i) and substr(0, i), on sequences of characters
SubstrFrom(s, i) == SubSeq(s, i + 1, Len(s))
SubstrTo(s, i) == SubSeq(s, 1, i)

\* String.prototype.indexOf(sub, from), from >= 0
IndexOf(s, sub, from) ==
    IF sub = << >> THEN Min(from, Len(s))
    ELSE IF \E i \in from..(Len(s) - Len(sub)) : SubSeq(s, i + 1, i + Len(sub)) = sub
    THEN CHOOSE i \in from..(Len(s) - Len(sub)) :
             /\ SubSeq(s, i + 1, i + Len(sub)) = sub
             /\ \A j \in from..(i - 1) : SubSeq(s, j + 1, j + Len(sub)) # sub
    ELSE -1

\* the length of matchLine[5]: the line from its first ';' on
CommentLength(s) == IF IndexOf(s, <<";">>, 0) < 0 THEN 0 ELSE Len(s) - IndexOf(s, <<";">>, 0)

\* parseLine(): matchLine = sLine.match(reLine); fParse = false.  reLine
\* matches every line, matchLine[5] beginning at the first ';'; the lines
\* parsed here have no operator IRP or IRPC, which would clear aParms.
MatchLine(f) ==
    [f EXCEPT !.cchComment = CommentLength(f.sLine),
              !.fParse = FALSE,
              !.nMatch = @ + 1,
              !.iParm = IF f.fParms THEN 0 ELSE @,
              !.at = IF f.fParms THEN "parm" ELSE "parsed"]

\* parseLine(): the head of the loop over aParms, and what follows the loop
NextParm(f) ==
    IF f.iParm < Len(f.aParms)
    THEN [f EXCEPT !.iSearch = 0, !.iLimit = Len(f.sLine) - f.cchComment, !.at = "search"]
    ELSE [f EXCEPT !.fParms = FALSE, !.at = IF f.fParse THEN "match" ELSE "parsed"]

\* the parameter that is being replaced and what replaces it
ParmAt(f) == f.aParms[f.iParm + 1]
ReplaceAt(f) == Replacement(f.aValues, f.aDefaults, f.iParm + 1)

\* the characters before and after the match at iMatch, '' when there is none
CharPre(s, iMatch) == IF iMatch > 0 THEN s[iMatch] ELSE ""
CharPost(s, iMatchEnd) == IF iMatchEnd < Len(s) THEN s[iMatchEnd + 1] ELSE ""

\* parseLine(): the match at iMatch is a whole symbol
WholeSymbol(s, iMatch, iMatchEnd) ==
    /\ iMatch = 0 \/ ~IsSymbolChar(CharPre(s, iMatch))
    /\ iMatchEnd >= Len(s) \/ ~IsSymbolChar(CharPost(s, iMatchEnd))

\* parseLine(): the match from iMatch to iMatchEnd replaced, with the
\* apostrophe before it and the apostrophe after it
Replaced(f, iMatch, iMatchEnd) ==
    [f EXCEPT !.sLine = SubstrTo(f.sLine, iMatch) \o ReplaceAt(f) \o SubstrFrom(f.sLine, iMatchEnd),
              !.iSearch = iMatch + Len(ReplaceAt(f)),
              !.fParse = TRUE]

\* parseLine(): the body of while (iSearch < iLimit) for the match at iMatch
SearchAt(f, iMatch) ==
    IF iMatch < 0 THEN [f EXCEPT !.iParm = @ + 1, !.at = "parm"]
    ELSE IF WholeSymbol(f.sLine, iMatch, iMatch + Len(ParmAt(f)))
    THEN Replaced(f,
                  IF CharPre(f.sLine, iMatch) = "'" THEN iMatch - 1 ELSE iMatch,
                  IF CharPost(f.sLine, iMatch + Len(ParmAt(f))) = "'"
                  THEN iMatch + Len(ParmAt(f)) + 1 ELSE iMatch + Len(ParmAt(f)))
    ELSE [f EXCEPT !.iSearch = iMatch + 1]

\* parseLine(): one turn of while (iSearch < iLimit)
Search(f) ==
    IF f.iSearch < f.iLimit THEN SearchAt(f, IndexOf(f.sLine, ParmAt(f), f.iSearch))
    ELSE [f EXCEPT !.iParm = @ + 1, !.at = "parm"]

\* parseLine(sLine, aParms, aValues, aDefaults) at its while (fParse), and
\* parseLine(sLine)
Locals(sLine, aParms, aValues, aDefaults) ==
    [sLine |-> sLine, fParms |-> TRUE, aParms |-> aParms, aValues |-> aValues, aDefaults |-> aDefaults,
     fParse |-> TRUE, cchComment |-> 0, iParm |-> 0, iSearch |-> 0, iLimit |-> 0,
     nMatch |-> 0, sText |-> sLine, at |-> "match"]
LocalsOf(sLine) == [Locals(sLine, << >>, << >>, << >>) EXCEPT !.fParms = FALSE]

Match ==
    /\ subst.at = "match"
    /\ subst' = MatchLine(subst)
    /\ UNCHANGED <<loader, asLines, pc, assembly, cpu, cpuStart, aOps>>

Parm ==
    /\ subst.at = "parm"
    /\ subst' = NextParm(subst)
    /\ UNCHANGED <<loader, asLines, pc, assembly, cpu, cpuStart, aOps>>

Scan ==
    /\ subst.at = "search"
    /\ subst' = Search(subst)
    /\ UNCHANGED <<loader, asLines, pc, assembly, cpu, cpuStart, aOps>>

NextSubst == Match \/ Parm \/ Scan

-----------------------------------------------------------------------------
(* CPUSim: the handlers of the rotate instructions of the 8080.  The       *)
(* record cpu holds the registers that the handlers of cpuops.js use.      *)

\* CPUDef.opRLC with the rotation of bit 7 into bit 0 left out
OpRLCShift(c) ==
    [c EXCEPT !.regA = BitAnd(c.regA * 2, 255),
              !.resultZeroCarry = BitOr(BitAnd(c.resultZeroCarry, 255), BitAnd(c.regA * 2, 256)),
              !.nStepCycles = @ - 4]

\* CPUDef.opRLC
OpRLC(c) ==
    [c EXCEPT !.regA = BitOr(BitAnd(c.regA * 2, 255), (c.regA * 2) \div 256),
              !.resultZeroCarry = BitOr(BitAnd(c.resultZeroCarry, 255), BitAnd(c.regA * 2, 256)),
              !.nStepCycles = @ - 4]

\* CPUDef.opRRC
OpRRC(c) ==
    [c EXCEPT !.regA = BitOr(BitAnd(c.regA * 256, 256), c.regA) \div 2,
              !.resultZeroCarry = BitOr(BitAnd(c.resultZeroCarry, 255), BitAnd(c.regA * 256, 256)),
              !.nStepCycles = @ - 4]

\* CPUDef.opRAL
OpRAL(c) ==
    [c EXCEPT !.regA = BitOr(BitAnd(c.regA * 2, 255), c.resultZeroCarry \div 256),
              !.resultZeroCarry = BitOr(BitAnd(c.resultZeroCarry, 255), BitAnd(c.regA * 2, 256)),
              !.nStepCycles = @ - 4]

\* CPUDef.opRAR
OpRAR(c) ==
    [c EXCEPT !.regA = BitOr(BitAnd(c.resultZeroCarry, 256), c.regA) \div 2,
              !.resultZeroCarry = BitOr(BitAnd(c.resultZeroCarry, 255), BitAnd(c.regA * 256, 256)),
              !.nStepCycles = @ - 4]

\* at most MaxOps handlers run
MaxOps == 2

\* the handler of one instruction runs
Run(c, op) ==
    /\ Len(aOps) < MaxOps
    /\ cpu' = c
    /\ aOps' = Append(aOps, op)
    /\ UNCHANGED <<loader, asLines, pc, assembly, subst, cpuStart>>

RLC == Run(OpRLC(cpu), "RLC")
RRC == Run(OpRRC(cpu), "RRC")
RAL == Run(OpRAL(cpu), "RAL")
RAR == Run(OpRAR(cpu), "RAR")

NextCpu == RLC \/ RRC \/ RAL \/ RAR

-----------------------------------------------------------------------------
(* Source programs *)

\* all sequences of at most n elements of S
RECURSIVE SeqsUpTo(_, _)
SeqsUpTo(S, n) ==
    IF n = 0 THEN {<< >>}
    ELSE {q \in SeqsUpTo(S, n - 1) : TRUE} \cup {Append(q, x) : q \in SeqsUpTo(S, n - 1), x \in S}

RECURSIVE Flatten(_)
Flatten(blocks) == IF blocks = << >> THEN << >> ELSE Head(blocks) \o Flatten(Tail(blocks))

SymA == <<"A">>
SymB == <<"B">>
SymV == <<"V">>
SYM == <<"S","Y","M">>
BOL == <<"B","O","L">>
CAL == <<"C","A","L">>

\* a line of one operator and its operands, and the line with a label
Insn(op, ops) == [EmptyLine EXCEPT !.op = op, !.ops = ops]
Labelled(label, line) == [line EXCEPT !.label = label]

\* a word of data: the line "n"
Datum(n) == Insn(<< >>, <<TNum(n)>>)

\* the line that ends with the literal "[piece", closed on the line or not
WithLiteral(line, piece, fShut) ==
    [line EXCEPT !.ops = Append(@, TLit), !.lit = <<piece>>, !.shut = fShut]

\* the line "text]"
Closing(line) == [line EXCEPT !.shut = TRUE]

\* a program that has a literal, a reserved variable and forward references
SamplePrograms ==
    {<<WithLiteral(Insn(HRRZI, <<TNum(1), TComma>>),
                   Insn(<< >>, <<TNum(46937), TComma, TComma, TNum(85410)>>), TRUE),
       Insn(MOVE, <<TNum(1), TComma, TRes(SymV)>>),
       Insn(JRST, <<TSym(SymA)>>),
       Labelled(SymA, Datum(0))>>}

\* programs of labels, assignments and a reserved variable
MaxSymLines == 2
SymLines ==
    {Labelled(SymA, Datum(0)),
     Labelled(<<"a">>, Datum(1)),
     Labelled(SymB, Insn(PSEUDO_EXP, <<TNum(2)>>)),
     Labelled(<<"A","B","C","D","E","F","G">>, EmptyLine),
     Labelled(<<"A","B","C","D","E","F","H">>, EmptyLine),
     Labelled(SymV, Datum(3)),
     Insn(MOVE, <<TNum(1), TComma, TRes(SymV)>>),
     [EmptyLine EXCEPT !.op = SymA, !.asg = <<"=">>, !.ops = <<TNum(5)>>],
     [EmptyLine EXCEPT !.op = SymB, !.asg = <<"=", "=">>, !.ops = <<TSym(SymA)>>]}
SymPrograms == SeqsUpTo(SymLines, MaxSymLines) \ {<< >>}

\* the text /TEST1/
Test1 == <<47, 84, 69, 83, 84, 49, 47>>

\* the bodies of literals: [0], [A], [B], [A B] and [A A] on two lines,
\* [ASCIZ/TEST1/], [5], [5 5] on two lines, and [135531,,246642]
LiteralBodies ==
    {<<Datum(0)>>,
     <<Insn(SymA, << >>)>>,
     <<Insn(SymB, << >>)>>,
     <<Insn(SymA, << >>), Insn(SymB, << >>)>>,
     <<Insn(SymA, << >>), Insn(SymA, << >>)>>,
     <<[EmptyLine EXCEPT !.op = PSEUDO_ASCIZ, !.str = Test1]>>,
     <<Datum(5)>>,
     <<Datum(5), Datum(5)>>,
     <<Insn(<< >>, <<TNum(46937), TComma, TComma, TNum(85410)>>)>>}

\* the lines "MOVE 1,[body]"
LiteralUse(body) ==
    IF Len(body) = 1
    THEN <<WithLiteral(Insn(MOVE, <<TNum(1), TComma>>), body[1], TRUE)>>
    ELSE <<WithLiteral(Insn(MOVE, <<TNum(1), TComma>>), body[1], FALSE), Closing(body[2])>>

\* programs of literals, closed or left open, and a reserved variable, then
\* the labels A and B
MaxLiterals == 2
LiteralBlocks ==
    {LiteralUse(body) : body \in LiteralBodies}
        \cup {<<Insn(MOVE, <<TNum(1), TComma, TRes(SymV)>>)>>,
              <<WithLiteral(Insn(MOVE, <<TNum(1), TComma>>), Insn(SymA, << >>), FALSE)>>}
LiteralPrograms ==
    {Flatten(q) \o <<Labelled(SymA, Datum(0)), Labelled(SymB, Datum(0))>> :
        q \in SeqsUpTo(LiteralBlocks, MaxLiterals) \ {<< >>}}

\* the operands "ac,[@]y(x)" of an instruction
Operands(ac, fInd, y, x) ==
    <<TNum(ac), TComma>> \o (IF fInd THEN <<TAt>> ELSE << >>) \o <<y>>
        \o (IF x # 0 THEN <<TLp, TNum(x), TRp>> ELSE << >>)

\* programs of an OPDEF and its use, then the labels SYM and BOL:
\*     OPDEF CAL [op ac0,[@]y0(2)]
\*     CAL ac1,[@]y1(x1)
MaxAc == 1
OpdefPrograms ==
    {<<WithLiteral(Insn(PSEUDO_OPDEF, <<TSym(CAL)>>), Insn(op, Operands(1, fInd0, y0, 2)), TRUE),
       Insn(CAL, Operands(ac1, fInd1, y1, x1)),
       Labelled(SYM, Datum(0)),
       Labelled(BOL, Datum(0))>> :
        op \in {MOVE, PUSHJ}, fInd0 \in BOOLEAN, y0 \in {TNum(5), TSym(SYM)},
        ac1 \in 0..MaxAc, fInd1 \in BOOLEAN, y1 \in {TNum(7), TSym(BOL)}, x1 \in {0, 2}}

\* the values of a halfword: near 0, near 2^18 and near -2^18
MaxDelta == 1
HalfValues == {k * H18 + d : k \in {-1, 0, 1}, d \in (-MaxDelta)..MaxDelta}

\* the text of a halfword: a numeral, or nothing
HalfTexts == {<<TNum(v)>> : v \in HalfValues} \cup {<< >>}

\* programs of the two lines "XWD a,b" and "EXP a,,b"
HalfPrograms ==
    {<<Insn(PSEUDO_XWD, a \o <<TComma>> \o b), Insn(PSEUDO_EXP, a \o <<TComma, TComma>> \o b)>> :
        a \in HalfTexts, b \in HalfTexts}

\* the strings of at most n of the characters 'A' and DEL
MaxString == 5
Strings == SeqsUpTo({65, 127}, MaxString)

\* programs of the line "ASCIZ /s/" or "ASCII /s/"
TextPrograms ==
    {<<[EmptyLine EXCEPT !.op = op, !.str = <<47>> \o s \o <<47>>]>> :
        op \in {PSEUDO_ASCIZ, PSEUDO_ASCII}, s \in Strings}

\* programs of the line "SIXBIT /s/", s of at most n of the characters 'A',
\* 'a' and '_'
MaxSixbit == 7
SixbitPrograms ==
    {<<[EmptyLine EXCEPT !.op = PSEUDO_SIXBIT, !.str = <<47>> \o s \o <<47>>]>> :
        s \in SeqsUpTo({65, 97, 95}, MaxSixbit)}

\* the line "op n,<body>", the body one line
Block(op, n, body) ==
    [Insn(op, <<TNum(n), TComma, TBlk>>) EXCEPT !.lit = <<body>>, !.shut = TRUE]

\* the pseudo-ops of blocks, and the numbers a block is given
BlockOps == {PSEUDO_REPEAT, PSEUDO_IFE, PSEUDO_IFG, PSEUDO_IFL, PSEUDO_IFN}
MaxRepeat == 2
BlockNumbers == (-1)..MaxRepeat

\* the body "EXP 5", with the label A where no REPEAT makes it a second time
BlockBody(ops) ==
    IF PSEUDO_REPEAT \in ops THEN Insn(PSEUDO_EXP, <<TNum(5)>>)
    ELSE Labelled(SymA, Insn(PSEUDO_EXP, <<TNum(5)>>))

\* programs of a block and a word after it: the block on one line, with a
\* block in it, closed on the line after, opened on the line after, and
\* written without the comma
BlockPrograms ==
    {<<Block(op, n, BlockBody({op})), Datum(7)>> : op \in BlockOps, n \in BlockNumbers}
    \cup {<<Block(op, n, Block(op2, k, BlockBody({op, op2}))), Datum(7)>> :
              op \in BlockOps, n \in BlockNumbers, op2 \in BlockOps, k \in BlockNumbers}
    \cup {<<[Block(op, n, BlockBody({op})) EXCEPT !.shut = FALSE],
             Closing(Insn(PSEUDO_EXP, <<TNum(6)>>)), Datum(7)>> :
              op \in BlockOps, n \in BlockNumbers}
    \cup {<<Insn(op, <<TNum(n), TComma>>),
             [Insn(<< >>, <<TBlk>>) EXCEPT !.lit = <<BlockBody({op})>>, !.shut = TRUE],
             Datum(7)>> : op \in BlockOps, n \in BlockNumbers}
    \cup {<<[Block(op, n, BlockBody({op})) EXCEPT !.ops = <<TNum(n), TBlk>>], Datum(7)>> :
              op \in BlockOps, n \in BlockNumbers}
    \cup {<<Insn(PSEUDO_REPEAT, <<TNum(1), TComma>>), Datum(7)>>,
            <<Insn(PSEUDO_REPEAT, <<TComma, TBlk>>)>>}

\* the locations n of "LOC n": the first two of each block of 64 words
MaxLocBlock == 8
LocValues == {k * 64 + d : k \in 0..MaxLocBlock, d \in 0..1}

\* programs of "LOC n", a labelled instruction and a word, after a word or not
LocPrograms ==
    {pre \o <<Insn(PSEUDO_LOC, <<TNum(n)>>),
              Labelled(SymA, Insn(MOVE, <<TNum(1), TComma, TNum(5)>>)),
              Datum(2)>> \o post :
        pre \in {<< >>, <<Datum(9)>>}, n \in LocValues,
        post \in {<< >>} \cup {<<Insn(PSEUDO_LOC, <<TNum(k)>>), Datum(3)>> : k \in {0, 66}}}

\* the operands of END: none, a numeral, and the label A
EndOperands == {<< >>, <<TNum(65)>>, <<TSym(SymA)>>}

\* programs of "A: 1", END, and "B: 5" after it; END is on a line of the
\* source, or the first line of the body of a block that takes two lines
EndPrograms ==
    {<<Labelled(SymA, Datum(1)), Insn(PSEUDO_END, e), Labelled(SymB, Datum(5))>> : e \in EndOperands}
    \cup {<<Labelled(SymA, Datum(1)),
             [Block(PSEUDO_REPEAT, 1, Insn(PSEUDO_END, e)) EXCEPT !.shut = FALSE],
             Closing(Labelled(SymB, Datum(5))),
             Datum(7)>> : e \in EndOperands}
    \cup {<<Labelled(SymA, Datum(1)), Block(op, 1, Insn(PSEUDO_END, e)), Labelled(SymB, Datum(5))>> :
              e \in EndOperands, op \in {PSEUDO_REPEAT, PSEUDO_IFN}}

\* resources of numerals: one line, two lines, and a line with its line end
Resources == {<<Datum(1)>>, <<Datum(2), Datum(3)>>, <<Datum(4), EmptyLine>>}

\* the lists of at most n URLs
MaxURLs == 3
UrlLists == SeqsUpTo(Resources, MaxURLs) \ {<< >>}

\* the lines "A=-1,,-1", "EXP A+A" (twice 2^36 - 1: more than a word holds),
\* and "JRST B"
AssignOnes == [EmptyLine EXCEPT !.op = SymA, !.asg = <<"=">>,
                                !.ops = <<TNum(-1), TComma, TComma, TNum(-1)>>]
ExpTwice == Insn(PSEUDO_EXP, <<TSym(SymA), TPlus, TSym(SymA)>>)

\* programs with a value that is truncated, in the first pass or by a fixup,
\* with an error in the first pass after it, and with undefined symbols
WarnPrograms ==
    {<<AssignOnes, ExpTwice, Datum(5)>>,
     <<ExpTwice, AssignOnes, Datum(5)>>,
     <<AssignOnes, ExpTwice, Labelled(SymB, Datum(1)), Labelled(SymB, Datum(2)), Datum(5)>>,
     <<Insn(JRST, <<TSym(SymB)>>), Insn(JRST, <<TSym(SymB)>>)>>}

\* lines that open a body: "REPEAT 2,<EXP 5", "MOVE 1,[5", "OPDEF CAL [MOVE 1,5"
\* and "REPEAT 2,"
Openers ==
    {[Block(PSEUDO_REPEAT, 2, Insn(PSEUDO_EXP, <<TNum(5)>>)) EXCEPT !.shut = FALSE],
     WithLiteral(Insn(MOVE, <<TNum(1), TComma>>), Datum(5), FALSE),
     WithLiteral(Insn(PSEUDO_OPDEF, <<TSym(CAL)>>), Insn(MOVE, <<TNum(1), TComma, TNum(5)>>), FALSE),
     Insn(PSEUDO_REPEAT, <<TNum(2), TComma>>)}

\* lines with a reserved variable, a literal and a reference to a later label
Pending ==
    <<Insn(MOVE, <<TNum(1), TComma, TRes(SymV)>>),
      WithLiteral(Insn(HRRZI, <<TNum(1), TComma>>), Datum(5), TRUE),
      Insn(JRST, <<TSym(SymB)>>),
      Labelled(SymB, Datum(0))>>

\* programs of a body that is opened and left open to the end, or closed
OpenPrograms ==
    {pre \o <<o>> \o rest : pre \in {<< >>, Pending}, o \in Openers,
                           rest \in {<< >>, <<Datum(6)>>, <<Datum(6), Datum(6)>>,
                                     <<Closing(Datum(6))>>, <<Datum(6), Closing(Datum(6)), Datum(7)>>}}

\* lines that name the reserved symbol V: "MOVE 1,V#", "MOVE 2,v#",
\* "REPEAT 2,<MOVE 1,V#>" and "HRRZI 1,[MOVE 1,V#]"
ReservedLines ==
    {Insn(MOVE, <<TNum(1), TComma, TRes(SymV)>>),
     Insn(MOVE, <<TNum(2), TComma, TRes(<<"v">>)>>),
     Block(PSEUDO_REPEAT, 2, Insn(MOVE, <<TNum(1), TComma, TRes(SymV)>>)),
     WithLiteral(Insn(HRRZI, <<TNum(1), TComma>>), Insn(MOVE, <<TNum(1), TComma, TRes(SymV)>>), TRUE)}

\* programs of at most n of these lines
MaxReserved == 2
ReservedPrograms == SeqsUpTo(ReservedLines, MaxReserved) \ {<< >>}

\* blocks of lines that open scopes: "MOVE 1,[CAL 1,7]" (a scope in a scope),
\* "CAL 1,7", "MOVE 1,[5]", "MOVE 1,[5" with "6]", and the plain word "5"
ScopeBlocks ==
    {<<WithLiteral(Insn(MOVE, <<TNum(1), TComma>>), Insn(CAL, Operands(1, FALSE, TNum(7), 0)), TRUE)>>,
     <<Insn(CAL, Operands(1, FALSE, TNum(7), 0))>>,
     <<WithLiteral(Insn(MOVE, <<TNum(1), TComma>>), Datum(5), TRUE)>>,
     <<WithLiteral(Insn(MOVE, <<TNum(1), TComma>>), Datum(5), FALSE), Closing(Datum(6))>>,
     <<Datum(5)>>}

\* programs of "OPDEF CAL [PUSHJ 1,5(2)]" and at most n of these blocks
MaxScopes == 2
ScopePrograms ==
    {<<WithLiteral(Insn(PSEUDO_OPDEF, <<TSym(CAL)>>), Insn(PUSHJ, Operands(1, FALSE, TNum(5), 2)), TRUE)>>
        \o Flatten(q) : q \in SeqsUpTo(ScopeBlocks, MaxScopes)}

\* the line "text>rest" or "text]rest"
ClosingBefore(line, rest) == [line EXCEPT !.shut = TRUE, !.rem = <<rest>>]

\* the line "<" followed by text
Angle(piece, fShut) == [Insn(<< >>, <<TBlk>>) EXCEPT !.lit = <<piece>>, !.shut = fShut]

\* the lines that open a definition without closing it: "REPEAT 2,<5",
\* "IFE 1,<5", "IFN 1,<5", "REPEAT 2," with "<5", and "MOVE 1,[5"
CaptureOpeners ==
    {<<[Block(PSEUDO_REPEAT, 2, Datum(5)) EXCEPT !.shut = FALSE]>>,
     <<[Block(PSEUDO_IFE, 1, Datum(5)) EXCEPT !.shut = FALSE]>>,
     <<[Block(PSEUDO_IFN, 1, Datum(5)) EXCEPT !.shut = FALSE]>>,
     <<Insn(PSEUDO_REPEAT, <<TNum(2), TComma>>), Angle(Datum(5), FALSE)>>,
     <<WithLiteral(Insn(MOVE, <<TNum(1), TComma>>), Datum(5), FALSE)>>}

\* the lines between: none, "A: 6", "REPEAT 1,<6>" and "MOVE 1,[6]"
CaptureMiddles ==
    {<< >>,
     <<Labelled(SymA, Datum(6))>>,
     <<Block(PSEUDO_REPEAT, 1, Datum(6))>>,
     <<WithLiteral(Insn(MOVE, <<TNum(1), TComma>>), Datum(6), TRUE)>>}

\* the lines that close the definition: "7>" and "7>3" (or "7]" and "7]3")
CaptureClosings == {Closing(Datum(7)), ClosingBefore(Datum(7), Datum(3))}

\* programs of a definition over several lines, then the word 4; of
\* "REPEAT 2,<5>3" on one line; and of "REPEAT 2," followed by "<5>3" or by "6"
CapturePrograms ==
    {o \o mid \o <<c, Datum(4)>> : o \in CaptureOpeners, mid \in CaptureMiddles, c \in CaptureClosings}
        \cup {<<[Block(PSEUDO_REPEAT, 2, Datum(5)) EXCEPT !.rem = <<Datum(3)>>], Datum(4)>>,
              <<Insn(PSEUDO_REPEAT, <<TNum(2), TComma>>),
                [Angle(Datum(5), TRUE) EXCEPT !.rem = <<Datum(3)>>], Datum(4)>>,
              <<Insn(PSEUDO_REPEAT, <<TNum(2), TComma>>), Datum(6), Datum(4)>>}

\* the names of macros and of their parameters
SymM == <<"M">>
SymP == <<"P">>
SymQ == <<"Q">>

\* the operands "a1,a2,..." of a call, each argument a text
RECURSIVE JoinArgs(_)
JoinArgs(args) ==
    IF args = << >> THEN << >>
    ELSE IF Len(args) = 1 THEN args[1]
    ELSE args[1] \o <<TComma>> \o JoinArgs(Tail(args))

\* the arguments of calls: at most n of nothing, "7" and "2"
MaxArgs == 2
ArgLists == SeqsUpTo({<< >>, <<TNum(7)>>, <<TNum(2)>>}, MaxArgs)

\* the macro M whose first parameter has the default 5:
\*     DEFINE M(P<5>,Q)<EXP P
\*     XWD Q,3>
DefaultMacro ==
    <<[Insn(PSEUDO_DEFINE, <<TSym(SymM), TLp, TSym(SymP), TLt, TNum(5), TGt, TComma, TSym(SymQ),
                             TRp, TBlk>>)
          EXCEPT !.lit = <<Insn(PSEUDO_EXP, <<TSym(SymP)>>)>>],
      Closing(Insn(PSEUDO_XWD, <<TSym(SymQ), TComma, TNum(3)>>))>>

\* the macro M whose second parameter has the default 5:
\*     DEFINE M(P,Q<5>)<XWD P,Q>
DefaultSecond ==
    <<[Insn(PSEUDO_DEFINE, <<TSym(SymM), TLp, TSym(SymP), TComma, TSym(SymQ), TLt, TNum(5), TGt,
                             TRp, TBlk>>)
          EXCEPT !.lit = <<Insn(PSEUDO_XWD, <<TSym(SymP), TComma, TSym(SymQ)>>)>>, !.shut = TRUE]>>

\* programs of one of the two macros and a call "M args" or "M (args)"
DefaultPrograms ==
    {d \o <<Insn(SymM, IF fParens THEN <<TLp>> \o JoinArgs(args) \o <<TRp>> ELSE JoinArgs(args))>> :
        d \in {DefaultMacro, DefaultSecond}, args \in ArgLists, fParens \in BOOLEAN}

\* the lists "e1,e2,..." that IRP is given, of at most n numbers
MaxElements == 2
IrpLists == SeqsUpTo({1, 2}, MaxElements) \ {<< >>}

\* the argument of a call that is the list es: "e" or "<e1,e2,...>"
ListText(es) ==
    IF Len(es) = 1 THEN <<TNum(es[1])>>
    ELSE <<TLt>> \o JoinArgs([i \in 1..Len(es) |-> <<TNum(es[i])>>]) \o <<TGt>>

\* the numbers whose digits IRPC is given: "5" and "12"
IrpcNumbers == {5, 10}

\* the line "op name,<body>"
Irp(op, name, body) ==
    [Insn(op, <<TSym(name), TComma, TBlk>>) EXCEPT !.lit = <<body>>, !.shut = TRUE]

\* the lines "DEFINE M(P,Q)<first", "second" and ">"
DefineM(first, second) ==
    <<[Insn(PSEUDO_DEFINE, <<TSym(SymM), TLp, TSym(SymP), TComma, TSym(SymQ), TRp, TBlk>>)
          EXCEPT !.lit = <<first>>],
      second, Closing(EmptyLine)>>

\* the bodies of an IRP over P: the element, or the constant 3
IrpBodies == {Insn(PSEUDO_EXP, <<TSym(SymP)>>), Insn(PSEUDO_EXP, <<TNum(3)>>)}

\* the macro M that iterates over both its parameters, and a call "M es,q":
\*     DEFINE M(P,Q)<IRP P,<body>
\*     IRPC Q,<EXP Q>
\*     >
IrpProgram(body, es, q) ==
    DefineM(Irp(PSEUDO_IRP, SymP, body), Irp(PSEUDO_IRPC, SymQ, Insn(PSEUDO_EXP, <<TSym(SymQ)>>)))
        \o <<Insn(SymM, ListText(es) \o <<TComma, TNum(q)>>)>>

\* an IRP or IRPC outside of every macro, and one inside M over a name, V,
\* that is no parameter of M
IrpOutside(op) == <<Datum(1), Irp(op, SymP, Insn(PSEUDO_EXP, <<TNum(3)>>)), Datum(2)>>
IrpOther(op) ==
    DefineM(Datum(1), Irp(op, SymV, Insn(PSEUDO_EXP, <<TNum(3)>>)))
        \o <<Insn(SymM, <<TNum(5), TComma, TNum(6)>>), Datum(2)>>

\* the macro M that calls itself with other arguments before it iterates:
\*     DEFINE M(P,Q)<IFN Q,<M 7,0>
\*     op P,<EXP P>
\*     >
\*     M 5,1
IrpRecursive(op) ==
    DefineM([Insn(PSEUDO_IFN, <<TSym(SymQ), TComma, TBlk>>)
                EXCEPT !.lit = <<Insn(SymM, <<TNum(7), TComma, TNum(0)>>)>>, !.shut = TRUE],
            Irp(op, SymP, Insn(PSEUDO_EXP, <<TSym(SymP)>>)))
        \o <<Insn(SymM, <<TNum(5), TComma, TNum(1)>>)>>

\* the macro M that calls another macro, N, before it iterates:
\*     DEFINE N(P)<EXP P>
\*     DEFINE M(P,Q)<N 7
\*     op P,<EXP P>
\*     >
\*     M 5,1
SymN == <<"N">>
IrpAfterCall(op) ==
    <<[Insn(PSEUDO_DEFINE, <<TSym(SymN), TLp, TSym(SymP), TRp, TBlk>>)
          EXCEPT !.lit = <<Insn(PSEUDO_EXP, <<TSym(SymP)>>)>>, !.shut = TRUE]>>
        \o DefineM(Insn(SymN, <<TNum(7)>>), Irp(op, SymP, Insn(PSEUDO_EXP, <<TSym(SymP)>>)))
        \o <<Insn(SymM, <<TNum(5), TComma, TNum(1)>>)>>

IrpOps == {PSEUDO_IRP, PSEUDO_IRPC}
IrpPrograms ==
    {IrpProgram(body, es, q) : body \in IrpBodies, es \in IrpLists, q \in IrpcNumbers}
        \cup {IrpOutside(op) : op \in IrpOps} \cup {IrpOther(op) : op \in IrpOps}
CallPrograms == {IrpRecursive(op) : op \in IrpOps} \cup {IrpAfterCall(op) : op \in IrpOps}

\* lines that name the current location: "JRST .", "EXP .", "MOVE 1,[JRST .]",
\* "MOVE 1,[MOVE 2,[JRST .]]", "CAL 1,." and "MOVE 1,[CAL 1,.]"
DotMain == Insn(JRST, <<TDot>>)
DotExp == Insn(PSEUDO_EXP, <<TDot>>)
DotLiteral == WithLiteral(Insn(MOVE, <<TNum(1), TComma>>), Insn(JRST, <<TDot>>), TRUE)
DotNested ==
    WithLiteral(Insn(MOVE, <<TNum(1), TComma>>),
                WithLiteral(Insn(MOVE, <<TNum(2), TComma>>), Insn(JRST, <<TDot>>), TRUE), TRUE)
DotOpdef == Insn(CAL, <<TNum(1), TComma, TDot>>)
DotOpdefLiteral ==
    WithLiteral(Insn(MOVE, <<TNum(1), TComma>>), Insn(CAL, <<TNum(1), TComma, TDot>>), TRUE)
DotUses == {DotMain, DotExp, DotLiteral, DotNested, DotOpdef, DotOpdefLiteral}

\* programs of "OPDEF CAL [PUSHJ 1,5(2)]", k words and one of these lines
MaxBefore == 2
DotProgram(k, use) ==
    <<WithLiteral(Insn(PSEUDO_OPDEF, <<TSym(CAL)>>), Insn(PUSHJ, Operands(1, FALSE, TNum(5), 2)), TRUE)>>
        \o [i \in 1..k |-> Datum(5)] \o <<use>>
DotPrograms == {DotProgram(k, use) : k \in 0..MaxBefore, use \in DotUses}

\* programs that go back with LOC to a word that has a fixup: "LOC 64",
\* "JRST B", "LOC 64", a second line for the same location, and "B=5"
StaleLoc == 64
StaleSeconds == {Datum(1), Insn(MOVE, <<TNum(1), TComma, TSym(SymB)>>)}
StaleProgram(second) ==
    <<Insn(PSEUDO_LOC, <<TNum(StaleLoc)>>),
      Insn(JRST, <<TSym(SymB)>>),
      Insn(PSEUDO_LOC, <<TNum(StaleLoc)>>),
      second,
      [EmptyLine EXCEPT !.op = SymB, !.asg = <<"=">>, !.ops = <<TNum(5)>>]>>
StalePrograms == {StaleProgram(second) : second \in StaleSeconds}

\* programs of a label in a literal: k words, "MOVE 2,[0]" or not, "MOVE 1,["
\* with the label A at the last word of the literal, and "JRST A"
LabelBodies == {<<Labelled(SymA, Datum(0))>>, <<Datum(5), Labelled(SymA, Datum(0))>>}
LabelProgram(k, fFirst, body) ==
    [i \in 1..k |-> Datum(5)]
        \o (IF fFirst THEN <<WithLiteral(Insn(MOVE, <<TNum(2), TComma>>), Datum(0), TRUE)>> ELSE << >>)
        \o LiteralUse(body) \o <<Insn(JRST, <<TSym(SymA)>>)>>
LabelPrograms ==
    {LabelProgram(k, fFirst, body) : k \in 0..MaxBefore, fFirst \in BOOLEAN, body \in LabelBodies}

\* programs that use an OPDEF without operands: "OPDEF CAL [PUSHJ 1,5(2)]",
\* k words, "CAL", and a word after it or not
BareUse == Insn(CAL, << >>)
BareProgram(k, fAfter) == DotProgram(k, BareUse) \o (IF fAfter THEN <<Datum(7)>> ELSE << >>)
BarePrograms == {BareProgram(k, fAfter) : k \in 0..MaxBefore, fAfter \in BOOLEAN}

\* programs of a string on several lines: "9", "op /AB", n lines "C", and,
\* unless the string is left open, "D/" with the text rest after it, and "7"
MaxMiddle == 2
OpenString(op) == [EmptyLine EXCEPT !.op = op, !.str = <<47, 65, 66>>]
MiddleOfString == [EmptyLine EXCEPT !.str = <<67>>]
EndOfString(rest) == [EmptyLine EXCEPT !.str = <<68, 47>>, !.rem = rest]
StringRests == {<< >>, <<Datum(5)>>, <<Insn(MOVE, <<TNum(1), TComma, TNum(2)>>)>>}
StringProgram(op, n, fClosed, rest) ==
    <<Datum(9), OpenString(op)>> \o [i \in 1..n |-> MiddleOfString]
        \o (IF fClosed THEN <<EndOfString(rest), Datum(7)>> ELSE << >>)
StringPrograms ==
    {StringProgram(op, n, fClosed, rest) :
        op \in {PSEUDO_ASCIZ, PSEUDO_ASCII}, n \in 0..MaxMiddle, fClosed \in BOOLEAN,
        rest \in StringRests}

\* the lines of the text of a macro, of at most MaxLine of the characters
\* A B , ; ' before the end of line that parseText() appends
MaxLine == 4
LineChars == {"A", "B", ",", ";", "'"}
EndOfLine == <<"\r", "\n">>
BodyLines == {s \o EndOfLine : s \in SeqsUpTo(LineChars, MaxLine)}

\* the values of a parameter: none, a name, a numeral and a long numeral
MaxValue == 3
ParmValues == {<< >>, <<"A">>, <<"B">>, <<"1">>, [i \in 1..MaxValue |-> "1"]}

\* the parameters of a call: A; A with the default that getDefaults()
\* gives for "A<1>"; the parameter without name of "<1>", its value being
\* none, 1 or an apostrophe; A and B
ParmLists ==
    {[aParms |-> <<SymA>>, aValues |-> <<v>>, aDefaults |-> << >>] : v \in ParmValues}
        \cup {[aParms |-> <<SymA>>, aValues |-> << >>, aDefaults |-> <<<<"<", "1">>>>]}
        \cup {[aParms |-> <<<< >>>>, aValues |-> <<v>>, aDefaults |-> <<<<"<", "1">>>>] :
                  v \in {<< >>, <<"1">>, <<"'">>}}
        \cup {[aParms |-> <<SymA, SymB>>, aValues |-> <<v, w>>, aDefaults |-> << >>] :
                  v \in ParmValues, w \in ParmValues}

\* the values of resultZeroCarry: the low byte and the carry bit, set or not
CarryValues == {0, 85, 255, 256, 341, 511}

\* the variables of the host before the assembly
HostVariables == [n \in {<<"H","O","S","T">>} |-> Num(1)]

InitAssembly(urls) ==
    /\ asURLs \in urls
    /\ sOptions \in {"", "p"}
    /\ iURL = 1
    /\ aFetches = {1}
    /\ nTimers = 0
    /\ aDone = << >>
    /\ asLines = << >>
    /\ addrLoad \in {Null, 64}
    /\ addrStart = Null
    /\ tblMacros = << >>
    /\ tblSymbols = << >>
    /\ aLiterals = << >>
    /\ aVariables = << >>
    /\ aWords = EmptyArray
    /\ aFixups = EmptyArray
    /\ nLine = 0
    /\ nError = 0
    /\ nLiteral = 0
    /\ nLocation = IF addrLoad = Null THEN 0 ELSE addrLoad
    /\ nLocationScope = -1
    /\ stackScopes = << >>
    /\ sOperator = << >>
    /\ nMacroDef = 0
    /\ sMacroDef = << >>
    /\ dbgVars = HostVariables
    /\ dbgUndefined = NoFixup
    /\ aSaved = << >>
    /\ chASCII = Null
    /\ sASCII = << >>
    /\ nWarnings = 0
    /\ sError = [msg |-> "", arg |-> << >>, nLine |-> 0]
    /\ pc = "load"
    /\ iLine = 0
    /\ nLocationLiterals = 0
    /\ iLit = 0
    /\ iVar = 0
    /\ iFix = 0
    /\ aPending = [aWords |-> EmptyArray, aFixups |-> EmptyArray]

\* the CPU after a reset, regA being a and resultZeroCarry z
MaxCycles == 8
CpuWith(a, z) ==
    [regA |-> a, regB |-> 1, regC |-> 2, regD |-> 3, regE |-> 4, resultZeroCarry |-> z,
     nStepCycles |-> MaxCycles]

\* no line is being parsed and no instruction has run
AtRest ==
    /\ subst = [LocalsOf(<< >>) EXCEPT !.at = "parsed"]
    /\ cpu = CpuWith(0, 0)
    /\ cpuStart = cpu
    /\ aOps = << >>

\* the state after the construction, before a line is parsed
InitOf(urls) == InitAssembly(urls) /\ AtRest

\* the state after the construction for a single URL, of one of the programs
InitWith(programs) == InitOf({<<p>> : p \in programs})

Init ==
    InitOf(UrlLists) \/ InitWith(SamplePrograms \cup SymPrograms \cup LiteralPrograms \cup OpdefPrograms
                 \cup HalfPrograms \cup TextPrograms \cup SixbitPrograms
                 \cup BlockPrograms \cup LocPrograms
                 \cup EndPrograms \cup WarnPrograms
                 \cup OpenPrograms \cup ReservedPrograms
                 \cup ScopePrograms \cup CapturePrograms
                 \cup DefaultPrograms \cup IrpPrograms \cup CallPrograms
                 \cup DotPrograms \cup StalePrograms \cup LabelPrograms
                 \cup BarePrograms \cup StringPrograms)
Spec == Init /\ [][Next]_vars

\* the assembly of each family of programs
InitSym == InitWith(SamplePrograms \cup SymPrograms)
SpecSym == InitSym /\ [][Next]_vars
InitLiteral == InitWith(SamplePrograms \cup LiteralPrograms)
SpecLiteral == InitLiteral /\ [][Next]_vars
InitOpdef == InitWith(SamplePrograms \cup OpdefPrograms)
SpecOpdef == InitOpdef /\ [][Next]_vars
InitHalf == InitWith(SamplePrograms \cup HalfPrograms)
SpecHalf == InitHalf /\ [][Next]_vars
InitText == InitWith(SamplePrograms \cup TextPrograms)
SpecText == InitText /\ [][Next]_vars
InitSixbit == InitWith(SamplePrograms \cup SixbitPrograms)
SpecSixbit == InitSixbit /\ [][Next]_vars
InitBlock == InitWith(SamplePrograms \cup BlockPrograms)
SpecBlock == InitBlock /\ [][Next]_vars
InitLoc == InitWith(SamplePrograms \cup LocPrograms)
SpecLoc == InitLoc /\ [][Next]_vars
InitEnd == InitWith(SamplePrograms \cup EndPrograms \cup WarnPrograms
                 \cup OpenPrograms \cup ReservedPrograms
                 \cup ScopePrograms \cup CapturePrograms
                 \cup DefaultPrograms \cup IrpPrograms \cup CallPrograms
                 \cup DotPrograms)
SpecEnd == InitEnd /\ [][Next]_vars
InitUrl == InitOf(UrlLists \cup {<<p>> : p \in SamplePrograms \cup SymPrograms})
SpecUrl == InitUrl /\ [][Next]_vars
InitWarn == InitWith(SamplePrograms \cup SymPrograms \cup LiteralPrograms \cup WarnPrograms)
SpecWarn == InitWarn /\ [][Next]_vars
InitOpen == InitWith(SamplePrograms \cup OpenPrograms)
SpecOpen == InitOpen /\ [][Next]_vars
InitReserved == InitWith(SamplePrograms \cup ReservedPrograms)
SpecReserved == InitReserved /\ [][Next]_vars
InitScope == InitWith(SamplePrograms \cup ScopePrograms)
SpecScope == InitScope /\ [][Next]_vars
InitCapture == InitWith(SamplePrograms \cup CapturePrograms)
SpecCapture == InitCapture /\ [][Next]_vars
InitDefault == InitWith(SamplePrograms \cup DefaultPrograms)
SpecDefault == InitDefault /\ [][Next]_vars
InitIrp == InitWith(SamplePrograms \cup IrpPrograms)
SpecIrp == InitIrp /\ [][Next]_vars
InitCall == InitWith(SamplePrograms \cup CallPrograms \cup IrpPrograms)
SpecCall == InitCall /\ [][Next]_vars
InitDot == InitWith(SamplePrograms \cup ScopePrograms \cup DotPrograms)
SpecDot == InitDot /\ [][Next]_vars
InitPool == InitWith(SamplePrograms \cup LiteralPrograms \cup ScopePrograms \cup DotPrograms)
SpecPool == InitPool /\ [][Next]_vars
InitStale == InitWith(SamplePrograms \cup LocPrograms \cup StalePrograms)
SpecStale == InitStale /\ [][Next]_vars
InitLabel == InitWith(SamplePrograms \cup LiteralPrograms \cup LabelPrograms)
SpecLabel == InitLabel /\ [][Next]_vars
InitBare == InitWith(SamplePrograms \cup OpdefPrograms \cup BarePrograms)
SpecBare == InitBare /\ [][Next]_vars
InitString == InitWith(SamplePrograms \cup TextPrograms \cup StringPrograms)
SpecString == InitString /\ [][Next]_vars

\* parseLine() at its loop, for a line of the text of a macro
InitSubst ==
    /\ InitAssembly({<< >>}) /\ sOptions = "" /\ addrLoad = Null
    /\ \E s \in BodyLines :
           \/ subst = LocalsOf(s)
           \/ \E p \in ParmLists : subst = Locals(s, p.aParms, p.aValues, p.aDefaults)
    /\ cpu = CpuWith(0, 0) /\ cpuStart = cpu /\ aOps = << >>
SpecSubst == InitSubst /\ [][NextSubst]_vars

\* the CPU before a rotate instruction
InitCpu ==
    /\ InitAssembly({<< >>}) /\ sOptions = "" /\ addrLoad = Null
    /\ subst = [LocalsOf(<< >>) EXCEPT !.at = "parsed"]
    /\ \E a \in 0..255, z \in CarryValues : cpu = CpuWith(a, z)
    /\ cpuStart = cpu
    /\ aOps = << >>
SpecCpu == InitCpu /\ [][NextCpu]_vars
TypeOK ==
    pc \in {"load", "printed", "start", "walk", "check", "literals", "variables", "fixups",
            "restore", "done"}

-----------------------------------------------------------------------------
(* Properties *)

\* the line that the walk parses next, and the label of the reserved variable
\* that is placed next
ThisLine == asLines[iLine + 1]
ThisVariable == tblMacros[aVariables[iVar + 1]].sText[1].label

\* C1: when a line outside a macro definition and outside a text block has a
\* label whose name (upper-cased, cut to 6 characters) is already in the symbol
\* table, or when the label of a reserved variable is, the step raises "label
\* NAME redefined", leaves the symbol table as it was, and the assembly goes to
\* its end with nError = -1; the error is reported in no other way.
C1_LabelRedefined ==
    /\ [][/\ (/\ pc = "walk" /\ nMacroDef = 0 /\ chASCII = Null
              /\ ThisLine.label # << >>
              /\ SymbolName(ThisLine.label) \in DOMAIN tblSymbols)
             => (/\ pc' = "restore" /\ nError' = -1
                 /\ sError' = [msg |-> "label redefined", arg |-> SymbolName(ThisLine.label),
                               nLine |-> nLine + 1]
                 /\ tblSymbols' = tblSymbols)
          /\ (/\ pc = "variables"
              /\ aVariables[iVar + 1] \in DOMAIN tblMacros
              /\ SymbolName(ThisVariable) \in DOMAIN tblSymbols)
             => (/\ pc' = "restore" /\ nError' = -1
                 /\ sError'.msg = "label redefined"
                 /\ sError'.arg = SymbolName(ThisVariable)
                 /\ tblSymbols' = tblSymbols)
          /\ (pc = "restore" => nError' = nError /\ tblSymbols' = tblSymbols)]_vars
    /\ [](sError.msg = "label redefined"
            => nError = -1 /\ pc \in {"restore", "done"} /\ sError.arg \in DOMAIN tblSymbols)

\* the assembly of "A: 0" twice has ended: the second label was refused, the
\* symbol has the location and the line of the first
C1_Witness ==
    /\ pc = "done" /\ nError = -1
    /\ sError = [msg |-> "label redefined", arg |-> SymA, nLine |-> 2]
    /\ tblSymbols[SymA].nLine = 1
    /\ tblSymbols[SymA].value = Num(IF addrLoad = Null THEN 0 ELSE addrLoad)

\* the address given to the i-th literal, and its words and fixups as stored
\* in the image from location p on
LiteralAddress(i) == Int32(tblSymbols[aLiterals[i].name].value)
LiteralStoredAt(lit, p) ==
    \A k \in 0..(Cardinality(DOMAIN lit.aWords) - 1) :
        /\ WordAt(aWords, p + k) = WordAt(lit.aWords, k)
        /\ FixupAt(aFixups, p + k) = FixupAt(lit.aFixups, k)

\* C2: at the end of an assembly without error, two literals that have the
\* same words and the same fixup on each word have the same address.
C2_SameLiteralsShare ==
    (pc = "done" /\ nError = 0) =>
        \A i, j \in 1..Len(aLiterals) :
            (aLiterals[i].aWords = aLiterals[j].aWords /\ aLiterals[i].aFixups = aLiterals[j].aFixups)
                => LiteralAddress(i) = LiteralAddress(j)

\* C3: once a literal has its address p and before any fixup is resolved, the
\* words and the fixups stored from p on are the literal's own, word for word.
C3_CollapseExact ==
    (pc \in {"literals", "variables", "fixups"} /\ iFix = 0) =>
        \A i \in 1..iLit : LiteralStoredAt(aLiterals[i], LiteralAddress(i))

\* whether the text of the i-th literal is body
IsLiteral(i, body) == tblMacros[aLiterals[i].name].sText = body

\* C4: at the end of an assembly without error, the address of a literal [0]
\* is not that of the last word of a literal [ASCIZ/TEST1/].
C4_ZeroApartFromASCIZ ==
    (pc = "done" /\ nError = 0) =>
        \A i, j \in 1..Len(aLiterals) :
            (/\ IsLiteral(i, <<Datum(0)>>)
             /\ IsLiteral(j, <<[EmptyLine EXCEPT !.op = PSEUDO_ASCIZ, !.str = Test1]>>))
                => LiteralAddress(i) # LiteralAddress(j) + 1

\* whether the first i literals have their names defined, and whether the
\* first i reserved variables have their labels defined
LiteralsDefined(i) == \A k \in 1..i : aLiterals[k].name \in DOMAIN tblSymbols
VariablesDefined(i) ==
    \A k \in 1..i : SymbolName(tblMacros[aVariables[k]].sText[1].label) \in DOMAIN tblSymbols

RECURSIVE FixupValue(_)
FixupValue(toks) ==
    IF toks = << >> THEN Num(0)
    ELSE NumAdd(IF toks[1].k = "sym" THEN tblSymbols[SymbolName(toks[1].s)].value
                ELSE IF toks[1].k = "num" THEN Num(toks[1].v)
                ELSE Num(0),
                FixupValue(Tail(toks)))

\* v mod 2^36
Mod36(v) == [hi |-> v.hi % H18, lo |-> v.lo % H18]

\* C6: at the end of an assembly without error that had fixups, every location
\* that had a fixup had a word, this word has become the sum mod 2^36 of itself
\* and of the value of the fixup, and every other word is as it was.
C6_FixupsFolded ==
    (pc = "done" /\ nError = 0 /\ iFix > 0) =>
        /\ DOMAIN aPending.aFixups \subseteq DOMAIN aPending.aWords
        /\ DOMAIN aWords = DOMAIN aPending.aWords
        /\ \A nLoc \in DOMAIN aWords :
              aWords[nLoc] = IF nLoc \in DOMAIN aPending.aFixups
                             THEN Mod36(NumAdd(aPending.aWords[nLoc],
                                               FixupValue(aPending.aFixups[nLoc])))
                             ELSE aPending.aWords[nLoc]

\* the assembly of the sample program has ended: the three words that had
\* fixups hold the addresses of the literal, of the variable and of the label
C6_Witness ==
    /\ pc = "done" /\ nError = 0 /\ iFix > 0
    /\ Cardinality(DOMAIN aPending.aFixups) = 3
    /\ Len(asLines) = 7
    /\ \A nLoc \in DOMAIN aPending.aFixups :
          aWords[nLoc].lo = aPending.aWords[nLoc].lo + FixupValue(aPending.aFixups[nLoc]).lo
    /\ \E nLoc \in DOMAIN aPending.aFixups : aWords[nLoc].lo = nLocationLiterals + 1

\* C7: at the end of an assembly, every word of the image is an integer w
\* with 0 <= w < 2^36.
C7_WordRange ==
    pc = "done" =>
        \A nLoc \in DOMAIN aWords :
            aWords[nLoc].hi \in 0..(H18 - 1) /\ aWords[nLoc].lo \in 0..(H18 - 1)

\* a & b and a | b of two 36-bit words
And36(a, b) == [hi |-> BitAnd(a.hi, b.hi), lo |-> BitAnd(a.lo, b.lo)]
Or36(a, b) == [hi |-> BitOr(a.hi, b.hi), lo |-> BitOr(a.lo, b.lo)]

\* W0 + (W1 & (A|X|Y)) with (W1 & I) ORed in, in 36-bit space
Merge36(w0, w1) ==
    Or36(NumAdd(w0, And36(w1, Or36(Or36(A_FIELD, X_FIELD), Y_FIELD))), And36(w1, I_FIELD))

\* the location of the first word of the program
Origin == IF addrLoad = Null THEN 0 ELSE addrLoad

\* in a program that begins with an OPDEF and its use: what the body of the
\* OPDEF and the operands of the use assemble to while no symbol is defined
OpdefBody == DbgParseInstruction(asLines[1].lit[1].op, asLines[1].lit[1].ops, << >>)
OpdefUse == DbgParseInstruction(<< >>, asLines[3].ops, << >>)

\* C8: at the end of an assembly without error of a program that begins with
\* an OPDEF and its use, the word of the use is W0 + (W1 & (A|X|Y)) with
\* (W1 & I) ORed in, plus the values of the symbols that were undefined, in
\* 36-bit space; its opcode is that of W0.
C8_OpdefMerge ==
    (pc = "done" /\ nError = 0 /\ asLines[1].op = PSEUDO_OPDEF) =>
        /\ aWords[Origin] =
              Mod36(NumAdd(Merge36(OpdefBody.w, OpdefUse.w),
                           FixupValue(JoinFixups(OpdefBody.sUndefined, OpdefUse.sUndefined))))
        /\ aWords[Origin].hi \div 512 = Opcode(asLines[1].lit[1].op)

\* the value of one half of the operands of "XWD a,b": 0 when it is empty
HalfValue(toks, i) == IF i \in 1..Len(toks) /\ toks[i].k = "num" THEN toks[i].v ELSE 0

\* in a program "XWD a,b" and "EXP a,,b": the word (a mod 2^18) * 2^18 + (b mod 2^18)
HalvesWord(toks) ==
    [hi |-> HalfValue(toks, 1) % H18, lo |-> HalfValue(toks, Len(toks)) % H18]

\* C9: the assembly of "XWD a,b" and "EXP a,,b" ends without error, and both
\* lines have emitted the word (a mod 2^18) * 2^18 + (b mod 2^18), an empty
\* half counting as 0.
C9_Halfwords ==
    (pc = "done" /\ asLines[1].op = PSEUDO_XWD) =>
        /\ nError = 0
        /\ DOMAIN aWords = {Origin, Origin + 1}
        /\ aWords[Origin] = HalvesWord(asLines[1].ops)
        /\ aWords[Origin + 1] = HalvesWord(asLines[1].ops)

\* the assembly of "XWD -1,-262145" and "EXP -1,,-262145" has ended: both
\* words are 777777,,777777
C9_Witness ==
    /\ pc = "done" /\ asLines[1].op = PSEUDO_XWD
    /\ asLines[1].ops = <<TNum(-1), TComma, TNum(-H18 - 1)>>
    /\ asLines[3].ops = <<TNum(-1), TComma, TComma, TNum(-H18 - 1)>>
    /\ aWords[Origin] = [hi |-> H18 - 1, lo |-> H18 - 1]
    /\ aWords[Origin + 1] = [hi |-> H18 - 1, lo |-> H18 - 1]

\* the characters of the text between its delimiters
TextOf(str) == SubSeq(str, 2, Len(str) - 1)

\* the character in slot j (0 the most significant) of the word w
Slot(w, j) ==
    CASE j = 0 -> w.hi \div 2048
      [] j = 1 -> (w.hi \div 16) % 128
      [] j = 2 -> (w.hi % 16) * 8 + (w.lo \div 32768)
      [] j = 3 -> (w.lo \div 256) % 128
      [] j = 4 -> (w.lo \div 2) % 128

\* the words that the text s of n characters takes, one more character counted
\* for ASCIZ
WordsOfText(sOp, n) == IF sOp = PSEUDO_ASCIZ THEN (n + 5) \div 5 ELSE (n + 4) \div 5

Slot6(w, j) ==
    CASE j = 0 -> w.hi \div 4096
      [] j = 1 -> (w.hi \div 64) % 64
      [] j = 2 -> w.hi % 64
      [] j = 3 -> w.lo \div 4096
      [] j = 4 -> (w.lo \div 64) % 64
      [] j = 5 -> w.lo % 64

\* ((upper(c) & 0o177) + 0o40) & 0o77, upper() folding a-z to A-Z
CodeOfChar(c) == (((IF c \in 97..122 THEN c - 32 ELSE c) % 128) + 32) % 64

SourceLines == [i \in 1..((Len(asLines) + 1) \div 2) |-> asLines[2 * i - 1]]

IsBlock(line) == line.op \in BlockOps

\* the lines with every block whole: a block that is not closed on its line
\* takes the line after it, whose bracket opens it or closes it
RECURSIVE WholeLines(_)
WholeLines(lines) ==
    IF Len(lines) < 2 \/ ~IsBlock(lines[1]) \/ lines[1].shut
    THEN IF lines = << >> THEN << >> ELSE <<lines[1]>> \o WholeLines(Tail(lines))
    ELSE WholeLines(<<[lines[1] EXCEPT
                          !.lit = IF Positions(lines[2].ops, "blk") # {} THEN @ \o lines[2].lit
                                  ELSE Append(@, [lines[2] EXCEPT !.shut = FALSE]),
                          !.shut = lines[2].shut]>>
                    \o SubSeq(lines, 3, Len(lines)))

\* how many times the body of the block "op n,<body>" is to be assembled
TimesOf(op, n) ==
    CASE op = PSEUDO_REPEAT -> IF n > 0 THEN n ELSE 0
      [] op = PSEUDO_IFE -> IF n = 0 THEN 1 ELSE 0
      [] op = PSEUDO_IFN -> IF n # 0 THEN 1 ELSE 0
      [] op = PSEUDO_IFG -> IF n > 0 THEN 1 ELSE 0
      [] op = PSEUDO_IFL -> IF n < 0 THEN 1 ELSE 0

RECURSIVE Copies(_, _)
Copies(q, n) == IF n = 0 THEN << >> ELSE q \o Copies(q, n - 1)

\* the words that lines of blocks and of single numerals are to assemble to,
\* and the labels they are to define
RECURSIVE WordsOf(_)
WordsOf(lines) ==
    IF lines = << >> THEN << >>
    ELSE (IF IsBlock(lines[1])
          THEN Copies(WordsOf(lines[1].lit), TimesOf(lines[1].op, lines[1].ops[1].v))
          ELSE <<Num(lines[1].ops[1].v)>>) \o WordsOf(Tail(lines))

RECURSIVE LabelsOf(_)
LabelsOf(lines) ==
    IF lines = << >> THEN {}
    ELSE (IF ~IsBlock(lines[1]) THEN (IF lines[1].label = << >> THEN {} ELSE {lines[1].label})
          ELSE IF TimesOf(lines[1].op, lines[1].ops[1].v) = 0 THEN {}
          ELSE LabelsOf(lines[1].lit)) \cup LabelsOf(Tail(lines))

\* the image is the words ws, from the origin on
ImageIs(ws) ==
    /\ DOMAIN aWords = Origin..(Origin + Len(ws) - 1)
    /\ \A i \in 1..Len(ws) : aWords[Origin + i - 1] = ws[i]

\* a program of the block "op n,<body>", whole, and of the block "op n <body>"
CommaBlock(ops) ==
    /\ SourceLines[1].op \in ops
    /\ Len(SourceLines[1].ops) >= 2
    /\ SourceLines[1].ops[2].k = "comma"
    /\ WholeLines(SourceLines)[1].shut
SpacedBlock(ops) ==
    /\ SourceLines[1].op \in ops
    /\ Len(SourceLines[1].ops) >= 2
    /\ SourceLines[1].ops[2].k = "blk"

C13_Unselected ==
    /\ pc = "done"
    /\ SourceLines[1] = Block(PSEUDO_IFG, 0, BlockBody({PSEUDO_IFG}))
    /\ tblSymbols = << >>
    /\ ImageIs(<<Num(7)>>)

\* the place in the source of the first "LOC n", or 0, and its n
LocLine ==
    IF \E i \in 1..2 : i <= Len(SourceLines) /\ SourceLines[i].op = PSEUDO_LOC
    THEN CHOOSE i \in 1..2 : /\ SourceLines[i].op = PSEUDO_LOC
                              /\ \A j \in 1..(i - 1) : SourceLines[j].op # PSEUDO_LOC
    ELSE 0
LocOf(i) == SourceLines[i].ops[1].v

\* k lines after the first "LOC n" have been parsed, and no line after them
AfterLoc(k) ==
    \/ pc = "walk" /\ iLine = 2 * (LocLine + k)
    \/ pc = "check" /\ Len(SourceLines) = LocLine + k

\* C14: after "LOC n" in the main program the location counter is n, the next
\* word is stored at index n of the image and the label of its line has the
\* value n, and each word emitted advances the location counter by 1, so that
\* the word after it is stored at n + 1.
C14_Location ==
    LocLine # 0 =>
        /\ AfterLoc(0) => nLocation = LocOf(LocLine)
        /\ AfterLoc(1) =>
               /\ nLocation = LocOf(LocLine) + 1
               /\ aWords[LocOf(LocLine)] = [hi |-> 128 * 512 + 32, lo |-> 5]
               /\ tblSymbols[SymA].value = Num(LocOf(LocLine))
        /\ AfterLoc(2) =>
               /\ nLocation = LocOf(LocLine) + 2
               /\ aWords[LocOf(LocLine)] = [hi |-> 128 * 512 + 32, lo |-> 5]
               /\ aWords[LocOf(LocLine) + 1] = Num(2)
        /\ pc = "done" => nError = 0

\* "9", "LOC 512", "A: MOVE 1,5" and "2" are assembled from the load address
\* 64: the word 9 is at 64, the instruction at 512 and the word 2 at 513
C14_Witness ==
    /\ pc = "done" /\ addrLoad = 64
    /\ Len(SourceLines) = 4 /\ LocLine = 2 /\ LocOf(2) = 512
    /\ DOMAIN aWords = {64, 512, 513}
    /\ aWords[512] = [hi |-> 128 * 512 + 32, lo |-> 5]
    /\ aWords[513] = Num(2)
    /\ tblSymbols[SymA].value = Num(512)

\* the END of a program that has "A: 1" before it: the second line, or the
\* body of the block that the second line opens
EndLine ==
    IF Len(SourceLines) < 2 \/ SourceLines[1] # Labelled(SymA, Datum(1)) THEN << >>
    ELSE IF SourceLines[2].op = PSEUDO_END THEN <<SourceLines[2]>>
    ELSE IF IsBlock(SourceLines[2]) /\ SourceLines[2].lit # << >>
            /\ SourceLines[2].lit[1].op = PSEUDO_END
    THEN <<SourceLines[2].lit[1]>>
    ELSE << >>

\* the start address that the END line e asks for, A being at the origin
StartOf(e) ==
    IF e.ops = << >> THEN addrLoad
    ELSE IF e.ops[1].k = "num" THEN e.ops[1].v
    ELSE Origin

\* C15: once END has been processed, on a line of the source or in the
\* expansion of a block, with an operand or without one and for every load
\* address, null too, no later line emits a word or defines a symbol, and the
\* start address is the value of the operand, or the load address when there
\* is no operand.
C15_EndTerminates ==
    (pc = "done" /\ EndLine # << >>) =>
        /\ nError = 0
        /\ ImageIs(<<Num(1)>>)
        /\ DOMAIN tblSymbols = {SymA}
        /\ addrStart = StartOf(EndLine[1])

\* C15 where the load address is a number and END is not followed by other
\* lines of the text it is expanded from
C15_EndOutsideText ==
    (pc = "done" /\ EndLine # << >> /\ addrLoad # Null
        /\ (IsBlock(SourceLines[2]) => SourceLines[2].shut)) =>
        /\ nError = 0
        /\ ImageIs(<<Num(1)>>)
        /\ DOMAIN tblSymbols = {SymA}
        /\ addrStart = StartOf(EndLine[1])

\* the lines of all the resources, in the order of the URLs
ResourceLines == Flatten(asURLs)

\* a line that is empty or a single numeral
IsDatum(line) ==
    /\ line.label = << >> /\ line.op = << >> /\ line.str = << >> /\ line.lit = << >>
    /\ line.ops = << >> \/ (Len(line.ops) = 1 /\ line.ops[1].k = "num")

\* the words of lines that are empty or single numerals
RECURSIVE DataOf(_)
DataOf(lines) ==
    IF lines = << >> THEN << >>
    ELSE (IF lines[1].ops = << >> THEN << >> ELSE <<Num(lines[1].ops[1].v)>>)
             \o DataOf(Tail(lines))

\* C16: every line of every resource is parsed once, in the order of the URLs
\* and of the lines, and no separator is parsed as a line: when the lines are
\* numerals, the image is their values in that order and the number of the
\* lines parsed is the number of the lines of the resources.
C16_EveryLineOnce ==
    (pc = "done" /\ \A i \in 1..Len(ResourceLines) : IsDatum(ResourceLines[i])) =>
        /\ nError = 0
        /\ ImageIs(DataOf(ResourceLines))
        /\ nLine = Len(ResourceLines)

\* C16 for a single URL
C16_OneResource ==
    (pc = "done" /\ Len(asURLs) = 1 /\ \A i \in 1..Len(ResourceLines) : IsDatum(ResourceLines[i])) =>
        /\ nError = 0
        /\ ImageIs(DataOf(ResourceLines))
        /\ nLine = Len(ResourceLines)

\* the states in which no callback is due and none is running
Quiet == Idle /\ aFetches = {} /\ nTimers = 0

\* the callbacks and iterations that are left at most: the rank of the
\* statement about to run, and what is left of its loop
Rank ==
    CASE pc = "load" -> 8 [] pc = "start" -> 7 [] pc = "walk" -> 6 [] pc = "check" -> 5
      [] pc = "literals" -> 4 [] pc = "variables" -> 3 [] pc = "fixups" -> 2
      [] pc = "restore" -> 1 [] OTHER -> 0
LoopLeft ==
    CASE pc = "load" -> 2 * (Len(asURLs) - iURL) + 2 * Cardinality(aFetches) + nTimers
      [] pc = "walk" -> Len(asLines) - iLine
      [] pc = "literals" -> Len(aLiterals) - iLit
      [] pc = "variables" -> Len(aVariables) - iVar
      [] pc = "fixups" -> ArrayLength(aFixups) - iFix
      [] OTHER -> 0
StepsLeft == Rank * 4096 + LoopLeft

C17_Returned ==
    /\ pc = "done" /\ nError = -1 /\ aDone = <<[code |-> -1, url |-> Undefined]>>

\* the lines of the first k resources, as loadNextResource() joins them
RECURSIVE JoinedUpTo(_)
JoinedUpTo(k) == IF k = 0 THEN << >> ELSE JoinedUpTo(k - 1) \o Split(asURLs[k])

\* C18: the resources are fetched one at a time in the order of the URLs: at
\* most one fetch or timer is due, the fetch that is due is that of URL iURL
\* and the lines of the URLs before it, and only those, have been joined in
\* their order; parseResources() is entered only when every URL was fetched,
\* with the lines of all of them joined in the order of the URLs.
C18_Sequential ==
    /\ Cardinality(aFetches) + nTimers <= 1
    /\ aFetches \subseteq {iURL}
    /\ iURL \in 1..Len(asURLs)
    /\ (pc = "load" /\ nTimers = 0) => asLines = JoinedUpTo(iURL - 1)
    /\ (pc = "load" /\ nTimers > 0) => asLines = JoinedUpTo(iURL)
    /\ pc # "load" =>
          /\ aFetches = {} /\ nTimers = 0
          /\ iURL = Len(asURLs)
          /\ asLines = JoinedUpTo(Len(asURLs))

\* the third of three different resources is being fetched, the lines of the
\* first two are joined
C18_Witness ==
    /\ Len(asURLs) = 3 /\ asURLs[1] # asURLs[2]
    /\ aFetches = {3} /\ pc = "load"
    /\ asLines = Split(asURLs[1]) \o Split(asURLs[2])

\* C19: the variables of the host are restored on every path: what
\* resetVariables() returned is the table of before the assembly as long as
\* parseResources() runs, and when it has returned, after an error or not, the
\* table of the host is that table again.
C19_Restored ==
    /\ pc \in {"walk", "check", "literals", "variables", "fixups", "restore"} =>
          aSaved = HostVariables
    /\ pc \in {"load", "start", "printed", "done"} => dbgVars = HostVariables

\* parseResources() returned after an error, the label A defined before it:
\* the host has its own table again
C19_Witness ==
    /\ pc = "done" /\ nError = -1
    /\ SymA \in DOMAIN tblSymbols
    /\ aSaved = HostVariables
    /\ dbgVars = HostVariables

\* parseResources() is about to return without an error, and the table of the
\* host holds the symbols of the program
C19_BeforeRestore ==
    /\ pc = "restore" /\ nError = 0 /\ dbgVars # HostVariables

\* C20: an error aborts the assembly.  The step that raises it prints the
\* message, sets nError to -1 and goes to the end of parseResources(); after
\* it no line is parsed and no step of the second phase is taken, only the
\* return, and done is called with -1.  A warning alone does not abort and
\* does not change the value returned: nError is -1 only when an error was
\* raised.
C20_FatalAborts ==
    /\ [](/\ nError \in {0, -1}
          /\ nError = -1 <=> sError.msg # ""
          /\ nError = -1 => pc \in {"restore", "done"}
          /\ pc = "done" => aDone = <<[code |-> nError, url |-> Undefined]>>)
    /\ [][nError = -1 =>
             /\ pc = "restore" /\ pc' = "done"
             /\ UNCHANGED <<nError, sError, nLine, iLine, iLit, iVar, iFix, aWords, aFixups,
                            tblSymbols, tblMacros, nLocation, nWarnings>>]_vars

\* "A=-1,,-1", "EXP A+A" and "5" are assembled: a warning was printed for the
\* second line, the third was assembled and the value returned is 0
C20_Witness ==
    /\ pc = "done" /\ nError = 0 /\ nWarnings = 1
    /\ SourceLines = <<AssignOnes, ExpTwice, Datum(5)>>
    /\ aWords[Origin + 1] = Num(5)
    /\ aDone = <<[code |-> 0, url |-> Undefined]>>

\* an error in the second phase: of the two words that refer to the undefined
\* B the first raised the error, the second was left alone
C20_Aborted ==
    /\ pc = "done" /\ nError = -1
    /\ SourceLines = <<Insn(JRST, <<TSym(SymB)>>), Insn(JRST, <<TSym(SymB)>>)>>
    /\ iFix = Origin + 1 /\ iFix \in DOMAIN aFixups
    /\ aDone = <<[code |-> -1, url |-> Undefined]>>

\* a line that opens a body and does not close it, and the first such line
OpensBody(line) ==
    \/ ~line.shut /\ (Positions(line.ops, "lit") # {} \/ Positions(line.ops, "blk") # {})
    \/ IsBlock(line) /\ Positions(line.ops, "blk") = {}
FirstOpener ==
    CHOOSE i \in 1..Len(SourceLines) :
        /\ OpensBody(SourceLines[i])
        /\ \A j \in 1..(i - 1) : ~OpensBody(SourceLines[j])

\* C21: when the lines end while a body is being captured, the step after the
\* loop raises "open block from line N", N the line that opened the body, sets
\* nError to -1 and goes to the return: no literal and no variable is placed
\* and no fixup is resolved.  When the second phase begins, and at the end of
\* an assembly without error, no body is being captured and no scope is open.
C21_OpenBlock ==
    /\ []((pc \in {"literals", "variables", "fixups"}
              \/ (pc \in {"restore", "done"} /\ nError = 0)) =>
             nMacroDef = 0 /\ stackScopes = << >>)
    /\ []((pc \in {"restore", "done"} /\ sError.msg = "open block from line") =>
             /\ nError = -1
             /\ sError.arg = NumberText(FirstOpener)
             /\ iLit = 0 /\ iVar = 0 /\ iFix = 0
             /\ \A i \in 1..Len(aLiterals) : aLiterals[i].name \notin DOMAIN tblSymbols
             /\ \A i \in 1..Len(aVariables) : Tail(aVariables[i]) \notin DOMAIN tblSymbols)
    /\ [][(pc = "check" /\ nMacroDef # 0) =>
             /\ pc' = "restore"
             /\ sError'.msg = "open block from line"
             /\ UNCHANGED <<aWords, aFixups, tblSymbols, nLocation>>]_vars

\* after a reserved variable, a literal and a forward reference, "MOVE 1,[5"
\* on line 5 is not closed: the error names line 5, the image has the five
\* words of the first pass, and the literal, the variable and the fixups are
\* left as they were
C21_Witness ==
    /\ pc = "done" /\ nError = -1
    /\ sError.msg = "open block from line" /\ sError.arg = <<"5">>
    /\ SourceLines = Pending \o <<WithLiteral(Insn(MOVE, <<TNum(1), TComma>>), Datum(5), FALSE),
                                  Datum(6)>>
    /\ DOMAIN aWords = Origin..(Origin + 4)
    /\ Len(aLiterals) = 1 /\ Len(aVariables) = 1
    /\ DOMAIN aFixups = {Origin, Origin + 1, Origin + 2, Origin + 4}

\* a program all of whose lines name the reserved symbol V, in the letter
\* cases of S
NamesV(S) ==
    /\ SourceLines # << >>
    /\ \A i \in 1..Len(SourceLines) :
          /\ SourceLines[i] \in ReservedLines
          /\ \A j \in 1..Len(SourceLines[i].ops) :
                SourceLines[i].ops[j].h => SourceLines[i].ops[j].s \in S

\* the symbol V is queued once, and once the variables are placed it is a
\* label at the last word placed, which is 0
QueuedOnce ==
    /\ pc \in {"variables", "fixups", "restore", "done"} =>
          Cardinality({i \in 1..Len(aVariables) :
                          ToUpperCase(aVariables[i]) = <<"?", "V">>}) = 1
    /\ pc = "done" =>
          /\ nError = 0
          /\ SymV \in DOMAIN tblSymbols
          /\ tblSymbols[SymV].nType = SYMTYPE_LABEL
          /\ tblSymbols[SymV].value = Num(nLocation - 1)
          /\ aWords[nLocation - 1] = Num(0)
          /\ \A n \in DOMAIN aFixups : n < nLocation - 1

\* C22: however many times, where and in what letter case V# is written, V
\* is in the queue of the variables once, one word 0 is placed for it, V is
\* a label at that word and the assembly does not fail.
C22_ReservedOnce == NamesV({SymV, <<"v">>}) => QueuedOnce

\* C22 where V# is written in capital letters only
C22_SameCase == NamesV({SymV}) => QueuedOnce

\* the texts that a scope is opened for: "CAL 1,7" (which opens a scope of
\* its own), "5", "5" and "6", "MOVE 1,V#" and nothing
ScopeTexts ==
    {<<Insn(CAL, Operands(1, FALSE, TNum(7), 0))>>, <<Datum(5)>>, <<Datum(5), Datum(6)>>,
     <<Insn(MOVE, <<TNum(1), TComma, TRes(SymV)>>)>>, << >>}

\* the scope that pushScope(name) adds in the state m
Frame(m, name) ==
    [name |-> name, aWords |-> m.aWords, aFixups |-> m.aFixups, nLocation |-> m.nLocation,
     nLocationScope |-> m.nLocationScope, nLine |-> m.nLine]

\* m before pushScope(name), r when the text of the scope has been parsed
\* and p after popScope(): r has the scope of m on top of the scopes of m,
\* and p has the buffers, the locations and the scopes of m
Paired(m, name, r, p) ==
    r.err = "" =>
        /\ r.stackScopes = Append(m.stackScopes, Frame(m, name))
        /\ p.err = ""
        /\ p.stackScopes = m.stackScopes
        /\ p.aWords = m.aWords /\ p.aFixups = m.aFixups
        /\ p.nLocation = m.nLocation /\ p.nLocationScope = m.nLocationScope
        /\ p.aLiterals = IF name = << >> THEN r.aLiterals
                         ELSE Append(r.aLiterals, [name |-> name, aWords |-> r.aWords,
                                                   aFixups |-> r.aFixups])

\* pushScope(name), the text, popScope() in the state m
PairedIn(m, name, r) == Paired(m, name, r, PopScope(r))
PairedOn(m, name, text) == PairedIn(m, name, ParseText(PushScope(m, name), text))

\* C23: a scope pushed is popped before the scope under it, and popScope()
\* puts back the words, the fixups, the location and the scope location that
\* the pushScope() it matches saved; between the lines of the source there is
\* no scope, the scope location is -1 and the words of the lines before are
\* in the buffer; popScope() without a scope is the error "scope nesting
\* error".
C23_ScopeStack ==
    /\ [](nError = 0 => stackScopes = << >> /\ nLocationScope = -1)
    /\ [](pc = "walk" =>
            /\ \A name \in {<< >>, <<"?", "L">>} : \A text \in ScopeTexts :
                  /\ PairedOn(This, name, text)
                  /\ PairedOn(PushScope(This, <<"?", "K">>), name, text)
            /\ PopScope(This).err = "scope nesting error")
    /\ [][(pc = "walk" /\ nError' = 0) =>
            \A n \in DOMAIN aWords : n \in DOMAIN aWords' /\ aWords'[n] = aWords[n]]_vars

\* "OPDEF CAL [PUSHJ 1,5(2)]", "MOVE 1,[CAL 1,7]" and "CAL 1,7" are assembled
C23_Witness ==
    /\ pc = "done" /\ nError = 0
    /\ Len(SourceLines) = 3
    /\ SourceLines[2] = WithLiteral(Insn(MOVE, <<TNum(1), TComma>>),
                                    Insn(CAL, Operands(1, FALSE, TNum(7), 0)), TRUE)
    /\ SourceLines[3] = Insn(CAL, Operands(1, FALSE, TNum(7), 0))
    /\ stackScopes = << >> /\ nLocationScope = -1

\* the name and the kind of definition of the line that parseLine() is given
\* next: a label "NAME:" or an assignment "NAME=expr", "NAME==expr"
Defines(name) ==
    /\ pc = "walk"
    /\ \/ SymbolName(asLines[iLine + 1].label) = name
       \/ asLines[iLine + 1].asg # << >> /\ SymbolName(asLines[iLine + 1].op) = name

\* C24: a name that is a label keeps its value and its type, and a line that
\* defines it again, as a label or by assignment, ends the assembly in error.
C24_LabelImmutable ==
    [][\A name \in DOMAIN tblSymbols :
          (pc \in {"walk", "check", "literals", "variables", "fixups"}
               /\ tblSymbols[name].nType % 2 = SYMTYPE_LABEL) =>
              /\ name \in DOMAIN tblSymbols'
              /\ tblSymbols'[name].value = tblSymbols[name].value
              /\ tblSymbols'[name].nType = tblSymbols[name].nType
              /\ Defines(name) => nError' = -1 /\ pc' = "restore"]_vars

\* C24 for the lines "NAME:" only
C24_SecondLabel ==
    [][\A name \in DOMAIN tblSymbols :
          (pc = "walk" /\ tblSymbols[name].nType % 2 = SYMTYPE_LABEL
               /\ SymbolName(asLines[iLine + 1].label) = name) =>
              /\ tblSymbols' = tblSymbols
              /\ nError' = -1 /\ pc' = "restore"]_vars

\* the line that parseLine() is given next
NextLine == asLines[iLine + 1]

\* the step leaves the words, the fixups and the location of the program as
\* they are but for n new words at the location
MainGrowsBy(n) ==
    /\ nLocation' = nLocation + n
    /\ DOMAIN aWords' = DOMAIN aWords \cup (nLocation..(nLocation + n - 1))
    /\ \A k \in DOMAIN aWords : aWords'[k] = aWords[k]
    /\ DOMAIN aFixups' \subseteq DOMAIN aFixups \cup (nLocation..(nLocation + n - 1))
    /\ \A k \in DOMAIN aFixups : k \in DOMAIN aFixups' /\ aFixups'[k] = aFixups[k]

\* the step appends one literal, whose words are at the locations 0, 1, ...
\* of a buffer of its own, with its fixups
LiteralAdded ==
    /\ Len(aLiterals') = Len(aLiterals) + 1
    /\ SubSeq(aLiterals', 1, Len(aLiterals)) = aLiterals
    /\ aLiterals'[Len(aLiterals')].name = LiteralName(nLiteral')
    /\ DOMAIN aLiterals'[Len(aLiterals')].aWords # {}
    /\ DOMAIN aLiterals'[Len(aLiterals')].aWords =
           0..(Cardinality(DOMAIN aLiterals'[Len(aLiterals')].aWords) - 1)
    /\ DOMAIN aLiterals'[Len(aLiterals')].aFixups \subseteq DOMAIN aLiterals'[Len(aLiterals')].aWords

RegistersOnly(name) ==
    /\ DOMAIN tblMacros' = DOMAIN tblMacros \cup {name}
    /\ \A n \in DOMAIN tblMacros \ {name} : tblMacros'[n] = tblMacros[n]
    /\ aWords' = aWords /\ aFixups' = aFixups /\ nLocation' = nLocation
    /\ tblSymbols' = tblSymbols
    /\ aLiterals' = aLiterals /\ aVariables' = aVariables /\ nLiteral' = nLiteral

\* C26: the line "OPDEF name [body]" enters the macro name and does nothing
\* else; the body is assembled when the name is used as an operator.
C26_DefinitionOnly ==
    [][(pc = "walk" /\ nMacroDef = 0 /\ ToUpperCase(NextLine.op) = PSEUDO_OPDEF
            /\ NextLine.shut /\ nError' = 0) =>
          RegistersOnly(ToUpperCase(NextLine.ops[1].s))]_vars

\* what the line "OPDEF name [body]" leaves the same: the words, the fixups,
\* the location and the symbols
C26_NoWord ==
    [][(pc = "walk" /\ nMacroDef = 0 /\ ToUpperCase(NextLine.op) = PSEUDO_OPDEF
            /\ NextLine.shut /\ nError' = 0) =>
          /\ aWords' = aWords /\ aFixups' = aFixups /\ nLocation' = nLocation
          /\ tblSymbols' = tblSymbols
          /\ ToUpperCase(NextLine.ops[1].s) \in DOMAIN tblMacros']_vars

\* the words that the lines of a captured text assemble to: the word of "n",
\* the instruction of "MOVE 1,[n]", the words of a block
RECURSIVE WordsIn(_)
WordsIn(lines) ==
    IF lines = << >> THEN << >>
    ELSE (IF IsBlock(lines[1])
          THEN Copies(WordsIn(lines[1].lit), TimesOf(lines[1].op, lines[1].ops[1].v))
          ELSE IF lines[1].op = MOVE THEN <<[hi |-> Opcode(MOVE) * 512 + 32, lo |-> 0]>>
          ELSE <<Num(lines[1].ops[1].v)>>) \o WordsIn(Tail(lines))

\* the source line that has the opening bracket of the definition underway,
\* and the text between that bracket and the bracket that closes the line
\* parsed next
OpenedAt ==
    IF OwnBracket(SourceLines[tblMacros[sMacroDef].nLine]) # "" THEN tblMacros[sMacroDef].nLine
    ELSE tblMacros[sMacroDef].nLine + 1
Between ==
    IF OpenedAt = nLine + 1 THEN SourceLines[OpenedAt].lit
    ELSE SourceLines[OpenedAt].lit \o SubSeq(SourceLines, OpenedAt + 1, nLine)
            \o <<[NextLine EXCEPT !.shut = FALSE, !.rem = << >>]>>

\* the step adds the words ws to the program, at the location
Emits(ws) ==
    /\ nLocation' = nLocation + Len(ws)
    /\ DOMAIN aWords' = DOMAIN aWords \cup (nLocation..(nLocation + Len(ws) - 1))
    /\ \A k \in DOMAIN aWords : aWords'[k] = aWords[k]
    /\ \A i \in 1..Len(ws) : aWords'[nLocation + i - 1] = ws[i]

\* the step ends the definition underway: the phase is 0 again; the text
\* between the brackets is assembled as often as the block says, or is the
\* last literal; the text after the bracket is assembled after it
Closed(body, rest) ==
    /\ nMacroDef' = 0
    /\ IF Tail(sMacroDef) \in BlockOps
       THEN Emits(Copies(WordsIn(body), TimesOf(Tail(sMacroDef), Int32(tblMacros[sMacroDef].nOperand)))
                      \o WordsIn(rest))
       ELSE /\ Emits(WordsIn(rest))
            /\ aLiterals'[Len(aLiterals')].name = sMacroDef
            /\ aLiterals'[Len(aLiterals')].aWords =
                   [k \in 0..(Len(WordsIn(body)) - 1) |-> WordsIn(body)[k + 1]]

\* the line parsed next has the bracket that ends the definition underway
ClosesNext ==
    \/ nMacroDef = 2 /\ NextLine.shut /\ OwnBracket(NextLine) = ""
    \/ nMacroDef = 1 /\ NextLine.shut /\ OwnBracket(NextLine) = "blk"

\* lines of a definition underway are not assembled
Captured ==
    (pc = "walk" /\ nMacroDef # 0 /\ nMacroDef' # 0 /\ nError' = 0) =>
        UNCHANGED <<aWords, aFixups, nLocation, tblSymbols, aLiterals, aVariables>>

\* a definition that awaits its bracket gets it on the next line
Awaited ==
    (pc = "walk" /\ nMacroDef = 1 /\ OwnBracket(NextLine) # "blk") =>
        /\ nError' = -1 /\ pc' = "restore"
        /\ sError'.msg = "expected definition"

\* C27: while a definition is underway no line is assembled; when the
\* bracket that matches the opening bracket is seen, brackets opened in
\* between having been closed in between, the phase is 0 again, the text
\* between the two is what the block or literal assembles, at once, and the
\* text after the closing bracket is assembled as a line; a definition that
\* awaits its bracket ends in "expected ... definition" when the next line
\* has no bracket.
C27_BodyCapture ==
    [][/\ Captured
       /\ Awaited
       /\ (pc = "walk" /\ SourceLines \in CapturePrograms /\ nError' = 0) =>
             /\ (nMacroDef # 0 /\ ClosesNext) => Closed(Between, NextLine.rem)
             /\ (nMacroDef = 0 /\ IsBlock(NextLine) /\ NextLine.shut) =>
                   /\ nMacroDef' = 0
                   /\ Emits(WordsIn(<<NextLine>>) \o WordsIn(NextLine.rem))]_vars

\* C27 for the definitions that end on a later line than they begin on
C27_LaterLine ==
    [][/\ Captured
       /\ Awaited
       /\ (pc = "walk" /\ SourceLines \in CapturePrograms /\ nError' = 0
               /\ nMacroDef # 0 /\ ClosesNext) => Closed(Between, NextLine.rem)]_vars

\* "REPEAT 2,<5", "REPEAT 1,<6>", "7>3" and "4" are assembled
C27_Witness ==
    /\ pc = "done" /\ nError = 0
    /\ SourceLines = <<[Block(PSEUDO_REPEAT, 2, Datum(5)) EXCEPT !.shut = FALSE],
                       Block(PSEUDO_REPEAT, 1, Datum(6)),
                       ClosingBefore(Datum(7), Datum(3)), Datum(4)>>
    /\ ImageIs(<<Num(5), Num(6), Num(7), Num(5), Num(6), Num(7), Num(3), Num(4)>>)

\* the number that the argument i of args is, or else d
ValueOr(args, i, d) == IF i <= Len(args) /\ args[i] # << >> THEN args[i][1].v ELSE d

\* the last line of the source is the call "M args" or "M (args)"
Calls(args) ==
    /\ SourceLines[Len(SourceLines)].op = SymM
    /\ SourceLines[Len(SourceLines)].ops
          \in {JoinArgs(args), <<TLp>> \o JoinArgs(args) \o <<TRp>>}

\* the image of the call "M args": P is the argument, or the default 5, and
\* Q is the argument, or nothing, or the default 5
DefaultImage(args) ==
    IF SubSeq(SourceLines, 1, Len(SourceLines) - 1) = DefaultMacro
    THEN ImageIs(<<Num(ValueOr(args, 1, 5)), [hi |-> ValueOr(args, 2, 0), lo |-> 3]>>)
    ELSE ImageIs(<<[hi |-> ValueOr(args, 1, 0), lo |-> ValueOr(args, 2, 5)]>>)

\* C28: in the text of a macro a parameter P<d> is replaced by the argument
\* of the call, or by d when the call has no argument or an empty one for P;
\* a parameter without a default is replaced by the argument, or by nothing.
C28_Defaults ==
    (pc = "done" /\ SourceLines \in DefaultPrograms) =>
        /\ nError = 0
        /\ \A args \in ArgLists : Calls(args) => DefaultImage(args)
        /\ tblMacros[SymM].aDefaults \in {<<<<TNum(5)>>, << >>>>, <<<< >>, <<TNum(5)>>>>}

\* the call gives an argument to P, and to Q when Q has a default
GivesValues(args) ==
    /\ Len(args) >= 1 /\ args[1] # << >>
    /\ \/ SubSeq(SourceLines, 1, Len(SourceLines) - 1) = DefaultMacro
       \/ Len(args) = 2 /\ args[2] # << >>

\* C28 for the calls that give an argument to every parameter that has a
\* default and to every parameter before it
C28_Supplied ==
    (pc = "done" /\ SourceLines \in DefaultPrograms) =>
        \A args \in ArgLists :
            (Calls(args) /\ GivesValues(args)) => nError = 0 /\ DefaultImage(args)

\* the call "M 7" has assembled P as 7 and Q, which has no default, as nothing
C28_NoValue ==
    /\ pc = "done" /\ nError = 0
    /\ SourceLines = DefaultMacro \o <<Insn(SymM, <<TNum(7)>>)>>
    /\ ImageIs(<<Num(7), [hi |-> 0, lo |-> 3]>>)

\* the call "M 7,2" has assembled P as 7 and Q as 2
C28_SuppliedBoth ==
    /\ pc = "done" /\ SourceLines \in DefaultPrograms /\ nError = 0
    /\ Calls(<<<<TNum(7)>>, <<TNum(2)>>>>)
    /\ DefaultImage(<<<<TNum(7)>>, <<TNum(2)>>>>)

\* the words n1, n2, ...
Nums(ns) == [i \in 1..Len(ns) |-> Num(ns[i])]

\* the digits of the number n
Digits(n) == [i \in 1..Len(OctalDigits(n)) |-> OctalDigits(n)[i].v]

\* what the body of the IRP assembles to for the element e
BodyWord(body, e) == IF body.ops = <<TSym(SymP)>> THEN e ELSE 3

\* the assembly has ended with the image ws and without an error
Assembled(ws) == nError = 0 /\ ImageIs(ws)

\* C29: an IRP or IRPC in the text of a macro iterates over the arguments of
\* the call whose text is being assembled, also after a call of another macro
\* or of the same macro with other arguments has been assembled in that text.
C29_CurrentInvocation ==
    pc = "done" =>
        \A op \in IrpOps :
            /\ SourceLines = IrpRecursive(op) => Assembled(Nums(<<7, 5>>))
            /\ SourceLines = IrpAfterCall(op) => Assembled(Nums(<<7, 5>>))

\* C29 for the calls of another macro, and for a macro that iterates without
\* having called itself
C29_OtherMacro ==
    pc = "done" =>
        /\ \A op \in IrpOps : SourceLines = IrpAfterCall(op) => Assembled(Nums(<<7, 5>>))
        /\ \A body \in IrpBodies, q \in IrpcNumbers, e \in {1, 2} :
                SourceLines = IrpProgram(body, <<e>>, q) =>
                    Assembled(Nums(<<BodyWord(body, e)>> \o Digits(q)))

\* the macro M has called N and has then iterated over its own argument
C29_AfterCall ==
    /\ pc = "done" /\ SourceLines = IrpAfterCall(PSEUDO_IRPC)
    /\ Assembled(Nums(<<7, 5>>))

\* the line is the error message msg at line n, and nothing after it is assembled
FatalAt(n, msg, ws) == nError = -1 /\ sError.nLine = n /\ sError.msg = msg /\ ImageIs(ws)

\* C30: in the text of a macro whose parameter P has the value V, IRP P,<body>
\* assembles body for each element of the list V in order, P being the
\* element, and IRPC P,<body> for each character of V in order; outside of
\* every macro, or over a name that is no parameter of the macro, IRP and
\* IRPC are fatal errors.
C30_Iteration ==
    pc = "done" =>
        /\ \A body \in IrpBodies, es \in IrpLists, q \in IrpcNumbers :
                SourceLines = IrpProgram(body, es, q) =>
                    Assembled(Nums([i \in 1..Len(es) |-> BodyWord(body, es[i])] \o Digits(q)))
        /\ \A op \in IrpOps :
                /\ SourceLines = IrpOutside(op) => FatalAt(2, "outside of macro", Nums(<<1>>))
                /\ SourceLines = IrpOther(op) => FatalAt(4, "invalid parameter", Nums(<<1>>))

\* C30 for the lists of one element
C30_OneElement ==
    pc = "done" =>
        /\ \A body \in IrpBodies, es \in IrpLists, q \in IrpcNumbers :
                (SourceLines = IrpProgram(body, es, q) /\ Len(es) = 1) =>
                    Assembled(Nums(<<BodyWord(body, es[1])>> \o Digits(q)))
        /\ \A op \in IrpOps :
                /\ SourceLines = IrpOutside(op) => FatalAt(2, "outside of macro", Nums(<<1>>))
                /\ SourceLines = IrpOther(op) => FatalAt(4, "invalid parameter", Nums(<<1>>))

\* IRPC has assembled its body for the characters 1 and 2 of "12"
C30_Characters ==
    /\ pc = "done"
    /\ SourceLines = IrpProgram(Insn(PSEUDO_EXP, <<TSym(SymP)>>), <<2>>, 10)
    /\ Assembled(Nums(<<2, 1, 2>>))

\* IRP has assembled its body, which does not name P, once for the list "<1,2>"
C30_OnceForList ==
    /\ pc = "done"
    /\ SourceLines = IrpProgram(Insn(PSEUDO_EXP, <<TNum(3)>>), <<1, 2>>, 5)
    /\ Assembled(Nums(<<3, 5>>))

\* the macro M has called itself with 7 and has then iterated over 7, not 5
C29_InnerValues ==
    /\ pc = "done" /\ SourceLines = IrpRecursive(PSEUDO_IRPC)
    /\ Assembled(Nums(<<7, 7>>))

\* the word of "JRST n", and the right half of the word of "CAL 1,n" for
\* "OPDEF CAL [PUSHJ 1,5(2)]"
JrstTo(n) == [hi |-> Opcode(JRST) * 512, lo |-> n]
CalTo(n) == 5 + n

\* the word w is in the image after the words of the main program
InPool(w, n) == \E a \in DOMAIN aWords : a >= n /\ aWords[a] = w

\* the program is k words and the line use, and has been assembled
DotAssembled(k, use) == pc = "done" /\ SourceLines = DotProgram(k, use) /\ nError = 0

\* between the lines the scope location is >= 0 only when there is a scope
ScopeLocation == (nLocationScope >= 0) <=> (stackScopes # << >>)

\* "." is the live location at a line of the main program, and in a literal,
\* also in a literal of a literal, the location of the line of the main
\* program that has the literal
DotInLiterals ==
    \A k \in 0..MaxBefore :
        /\ DotAssembled(k, DotMain) => aWords[Origin + k] = JrstTo(Origin + k)
        /\ DotAssembled(k, DotExp) => aWords[Origin + k] = Num(Origin + k)
        /\ DotAssembled(k, DotLiteral) => InPool(JrstTo(Origin + k), Origin + k + 1)
        /\ DotAssembled(k, DotNested) => InPool(JrstTo(Origin + k), Origin + k + 1)
        /\ DotAssembled(k, DotOpdefLiteral) => aWords[Origin + k + 2].lo = CalTo(Origin + k)

\* C33: the scope location is >= 0 exactly while there is a scope, and is
\* then the location of the line of the main program that has the outermost
\* literal or use of an OPDEF; "." is that location in a scope and the live
\* location outside.
C33_ScopeLocation ==
    /\ ScopeLocation
    /\ DotInLiterals
    /\ \A k \in 0..MaxBefore :
           DotAssembled(k, DotOpdef) => aWords[Origin + k].lo = CalTo(Origin + k)

\* C33 without the operands of an OPDEF that is used in the main program
C33_Literals == ScopeLocation /\ DotInLiterals

\* "." in the operands of an OPDEF used in the main program is the location
\* after the word of the OPDEF
C33_AfterWord ==
    \A k \in 0..MaxBefore :
        DotAssembled(k, DotOpdef) => aWords[Origin + k].lo = CalTo(Origin + k + 1)

\* "MOVE 1,[MOVE 2,[JRST .]]" has been assembled after two words
C33_Nested == DotAssembled(MaxBefore, DotNested) /\ InPool(JrstTo(Origin + MaxBefore), 0)

\* the words of the image before the first fixup was resolved
WordsBefore == IF NextFixup(aFixups, 0) >= 0 THEN aPending.aWords ELSE aWords

\* the names of the literals are those of the numbers 1..nLiteral, each once
LiteralNames ==
    /\ \A i \in 1..Len(aLiterals) :
           \E k \in 1..nLiteral : aLiterals[i].name = ToUpperCase(LiteralName(k))
    /\ \A i, j \in 1..Len(aLiterals) : aLiterals[i].name = aLiterals[j].name => i = j

\* the literal lit has its address among the literals, where its words are
LiteralPlaced(lit) ==
    /\ lit.name \in DOMAIN tblSymbols
    /\ tblSymbols[lit.name].nType = SYMTYPE_LABEL
    /\ Int32(tblSymbols[lit.name].value) \in nLocationLiterals..nLocation
    /\ \A k \in 0..(Cardinality(DOMAIN lit.aWords) - 1) :
           WordAt(WordsBefore, Int32(tblSymbols[lit.name].value) + k) = WordAt(lit.aWords, k)

\* C34: no two literals have the same name; at the end of an assembly without
\* error every literal, also one in another literal, has its name defined as
\* a label whose value p is between the location at the end of the main pass
\* and the last location, the words from p on before the fixups being the
\* words of the literal.
C34_LiteralAddress ==
    /\ LiteralNames
    /\ (pc = "done" /\ nError = 0 /\ sOptions # "p") =>
           /\ \A name \in DOMAIN tblMacros :
                  tblMacros[name].nOperand = MACRO_OP_LITERAL =>
                      \E i \in 1..Len(aLiterals) : aLiterals[i].name = name
           /\ \A i \in 1..Len(aLiterals) : LiteralPlaced(aLiterals[i])

\* "MOVE 1,[MOVE 2,[JRST .]]" has been assembled: two literals besides the
\* text of the OPDEF have their addresses
C34_Nested ==
    /\ DotAssembled(1, DotNested)
    /\ Len(aLiterals) = 3
    /\ \A i \in 1..3 : LiteralPlaced(aLiterals[i])

\* the words of a literal are words of 36 bits
LiteralWithin(lit) == \A k \in DOMAIN lit.aWords : TruncateWord(lit.aWords[k]) = lit.aWords[k]

\* the statement of C34 for the literals that hold words of 36 bits
C34_WordsOf36Bits ==
    /\ LiteralNames
    /\ (pc = "done" /\ nError = 0 /\ sOptions # "p") =>
           /\ \A name \in DOMAIN tblMacros :
                  tblMacros[name].nOperand = MACRO_OP_LITERAL =>
                      \E i \in 1..Len(aLiterals) : aLiterals[i].name = name
           /\ \A i \in 1..Len(aLiterals) :
                  LiteralWithin(aLiterals[i]) => LiteralPlaced(aLiterals[i])

\* the program StaleProgram(second) has been assembled without error
StaleAssembled(second) == pc = "done" /\ SourceLines = StaleProgram(second) /\ nError = 0

\* C35: when the location counter has been moved back with LOC to a word
\* that has a fixup and a word without a fixup is emitted there, the old
\* fixup is discarded: no fixup is pending at that location, and the word is
\* the new word after the fixups.
C35_NoStaleFixup ==
    /\ (pc \in {"walk", "check"} /\ SourceLines = StaleProgram(Datum(1)) /\ iLine >= 8
           /\ nError = 0) => StaleLoc \notin DOMAIN aFixups
    /\ StaleAssembled(Datum(1)) => WordAt(aWords, StaleLoc) = Num(1)

\* a word that is emitted with a fixup has that fixup and no other: "MOVE 1,B"
\* over "JRST B" is MOVE 1,5 after the fixups
C35_NewFixup ==
    StaleAssembled(Insn(MOVE, <<TNum(1), TComma, TSym(SymB)>>)) =>
        /\ aFixups[StaleLoc] = <<TSym(SymB)>>
        /\ WordAt(aWords, StaleLoc) = DbgParseInstruction(MOVE, <<TNum(1), TComma, TNum(5)>>, << >>).w

\* "1" over "JRST B" has been assembled
C35_Stale == StaleAssembled(Datum(1)) /\ WordAt(aWords, StaleLoc) = Num(6)

\* the program is LabelProgram(k, fFirst, body)
LabelSource(k, fFirst, body) == asLines # << >> /\ SourceLines = LabelProgram(k, fFirst, body)

\* the address of the last word of the last literal of the program
LabelAddress == LiteralAddress(Len(aLiterals)) + Cardinality(DOMAIN aLiterals[Len(aLiterals)].aWords) - 1

\* C36: a label in the body of a literal is entered in the symbol table with
\* the offset of its word in the literal, and keeps that value when the
\* literal is placed or collapsed, whatever the address of the word.
C36_LiteralLabel ==
    \A k \in 0..MaxBefore, fFirst \in BOOLEAN, body \in LabelBodies :
        LabelSource(k, fFirst, body) =>
            /\ SymA \in DOMAIN tblSymbols =>
                   /\ tblSymbols[SymA].value = Num(Len(body) - 1)
                   /\ tblSymbols[SymA].nType = SYMTYPE_LABEL
            /\ (pc = "done" /\ nError = 0 /\ sOptions # "p") =>
                   /\ SymA \in DOMAIN tblSymbols
                   /\ LabelAddress > Len(body) - 1
                   /\ WordAt(aWords, LabelAddress) = Num(0)
                   /\ WordAt(aWords, Origin + k + (IF fFirst THEN 2 ELSE 1)).lo = Len(body) - 1

\* "5", "MOVE 2,[0]", "MOVE 1,[5", "A: 0]", "JRST A" has been assembled and
\* A is 1, its word being after the words of the program
C36_Witness ==
    /\ LabelSource(1, TRUE, <<Datum(5), Labelled(SymA, Datum(0))>>)
    /\ pc = "done" /\ nError = 0 /\ sOptions # "p"
    /\ tblSymbols[SymA].value = Num(1)
    /\ LabelAddress > Origin + 3

\* "MOVE 2,[0]", "MOVE 1,[A: 0]", "JRST A": the second literal is at the
\* address of the first, and A is 0
C36_Collapsed ==
    /\ LabelSource(0, TRUE, <<Labelled(SymA, Datum(0))>>)
    /\ pc = "done" /\ nError = 0 /\ sOptions # "p"
    /\ LiteralAddress(1) = LiteralAddress(2)
    /\ tblSymbols[SymA].value = Num(0)

\* the words of the program before the use of the OPDEF, and the word of the
\* text of the OPDEF
BareWords(k) == [i \in 1..(k + 1) |-> IF i <= k THEN Num(5) ELSE OpdefBody.w]

\* C37: the use of an OPDEF without operands is a fatal error: the text of
\* the OPDEF has been assembled into the main buffer, the operands gave no
\* word, no scope is left open, the error is "OPDEF error" for the name of
\* the OPDEF at the line of the use, and the assembly returns -1; the lines
\* after the use are not assembled.
C37_BareOPDEF ==
    \A k \in 0..MaxBefore, fAfter \in BOOLEAN :
        (pc = "done" /\ SourceLines = BareProgram(k, fAfter)) =>
            /\ FatalAt(k + 2, "OPDEF error", BareWords(k))
            /\ sError.arg = CAL
            /\ stackScopes = << >>

\* "OPDEF CAL [PUSHJ 1,5(2)]", "5", "CAL", "7" has ended in the error
C37_Witness ==
    /\ pc = "done" /\ SourceLines = BareProgram(1, TRUE)
    /\ nError = -1 /\ sError.msg = "OPDEF error"
    /\ WordAt(aWords, Origin + 1) = OpdefBody.w

\* the character i of text, 0 after its end
CodeAt(text, i) == IF i <= Len(text) THEN text[i] ELSE 0

\* the word of the five characters of text from i on, seven bits each from
\* the left
FiveChars(text, i) ==
    [hi |-> CodeAt(text, i) * 2048 + CodeAt(text, i + 1) * 16 + CodeAt(text, i + 2) \div 8,
     lo |-> (CodeAt(text, i + 2) % 8) * 32768 + CodeAt(text, i + 3) * 256 + CodeAt(text, i + 4) * 2]

\* the words of the string text of ASCIZ or ASCII
WordsOfString(op, text) ==
    [i \in 1..WordsOfText(op, Len(text)) |-> FiveChars(text, 5 * i - 4)]

\* the text of the string of StringProgram(op, n, TRUE, rest)
StringOver(n) == <<65, 66>> \o CRLF \o Flatten([i \in 1..n |-> <<67>> \o CRLF]) \o <<68>>

\* the words of the lines rest
RestWords(rest) ==
    IF rest = << >> THEN << >>
    ELSE IF rest[1].op = << >> THEN <<Num(5)>>
    ELSE <<DbgParseInstruction(rest[1].op, rest[1].ops, << >>).w>>

C38_LeftOpen ==
    /\ pc = "done" /\ SourceLines = StringProgram(PSEUDO_ASCII, 1, FALSE, << >>)
    /\ nError = 0 /\ chASCII = 47
    /\ sASCII = <<65, 66, 13, 10, 67, 13, 10>>

\* the turn of the search loop that is about to run replaces a match
Replaces(f) ==
    /\ f.at = "search" /\ f.iSearch < f.iLimit
    /\ IndexOf(f.sLine, ParmAt(f), f.iSearch) >= 0
    /\ WholeSymbol(f.sLine, IndexOf(f.sLine, ParmAt(f), f.iSearch),
                   IndexOf(f.sLine, ParmAt(f), f.iSearch) + Len(ParmAt(f)))

\* the apostrophes of the text s
Apostrophes(s) == Cardinality({i \in 1..Len(s) : s[i] = "'"})

\* what is left of the search loop: the text from iSearch on, then the
\* apostrophes of the line, then the distance of iSearch to iLimit
SearchLeft(f) ==
    (Len(f.sLine) - f.iSearch + 1) * 1024 + Min(Apostrophes(f.sLine), 15) * 64
        + (IF f.iLimit - f.iSearch < 0 THEN 0 ELSE Min(f.iLimit - f.iSearch, 63))

\* what is left of the loop of parseLine(): the passes, the parameters of the
\* pass, and the search for the parameter
StepsOfLine(f) ==
    CASE f.at = "parsed" -> 0
      [] f.at = "match" -> IF f.fParms THEN 3 + (Len(f.aParms) + 1) * 65536 ELSE 1
      [] f.at = "parm" -> 2 + (Len(f.aParms) - f.iParm) * 65536
      [] f.at = "search" -> 3 + (Len(f.aParms) - f.iParm - 1) * 65536 + SearchLeft(f)

\* a step of the loop leaves less to do; the search goes on behind the text
\* that it put in; the parameters are applied in the first pass only, and
\* the line is matched once more at most, after a replacement
SinglePass ==
    /\ StepsOfLine(subst') < StepsOfLine(subst)
    /\ StepsOfLine(subst') >= 0
    /\ SearchLeft(subst') < 65533
    /\ Replaces(subst) =>
           /\ subst'.at = "search" /\ subst'.iParm = subst.iParm
           /\ subst'.iSearch >= Len(ReplaceAt(subst))
           /\ SubSeq(subst'.sLine, subst'.iSearch - Len(ReplaceAt(subst)) + 1, subst'.iSearch)
                  = ReplaceAt(subst)
    /\ subst'.fParms => (subst.fParms /\ subst'.nMatch = 1)
    /\ subst'.nMatch <= 2
    /\ subst'.nMatch = 2 => (subst'.sLine = subst.sLine /\ subst.nMatch >= 1)
    /\ (subst'.nMatch > subst.nMatch /\ subst.nMatch = 1) => subst.fParse

\* a turn of the search loop is not the turn before it once more
Advances(f) == f.at = "search" => Search(f) # f

\* C31: the loop of parseLine() that replaces the parameters ends, for every
\* line, parameters and values: no turn of the search leaves the loop where
\* it was, and every step leaves less to do; the search goes on behind the
\* text that it put in; the parameters are applied in the first pass only,
\* and the line is matched once more at most.
C31_SinglePass == [](Advances(subst)) /\ [][SinglePass]_vars

\* the statement of C31 for the parameters that have a name
Named(f) == \A i \in 1..Len(f.aParms) : f.aParms[i] # << >>
C31_Named == [](Named(subst) => Advances(subst)) /\ [][Named(subst) => SinglePass]_vars

\* the search for the parameter without name, its value an apostrophe, is
\* where it was before its turn
C31_Loops ==
    /\ subst.at = "search" /\ ParmAt(subst) = << >> /\ ReplaceAt(subst) = <<"'">>
    /\ Search(subst) = subst

\* "A,A" has been parsed, A being "A": both A were replaced by A and the line
\* was matched a second time
C31_Witness ==
    /\ subst.at = "parsed"
    /\ subst.sText = <<"A", ",", "A">> \o EndOfLine
    /\ subst.aParms = <<SymA>> /\ subst.aValues = <<SymA>>
    /\ subst.sLine = subst.sText
    /\ subst.nMatch = 2

\* the name sParm is at i in the text s, the characters around it being no
\* symbol characters
Occurs(s, sParm, i) ==
    /\ i + Len(sParm) <= Len(s)
    /\ SubSeq(s, i + 1, i + Len(sParm)) = sParm
    /\ WholeSymbol(s, i, i + Len(sParm))

\* the text s from i on with every whole occurrence of sParm before iLimit
\* replaced by sReplace, together with the apostrophe before it and the
\* apostrophe after it
RECURSIVE WithValue(_, _, _, _, _)
WithValue(s, i, sParm, sReplace, iLimit) ==
    IF i >= Len(s) THEN << >>
    ELSE IF i < iLimit /\ Occurs(s, sParm, i)
    THEN sReplace \o WithValue(s, i + Len(sParm) + (IF CharPost(s, i + Len(sParm)) = "'" THEN 1 ELSE 0),
                               sParm, sReplace, iLimit)
    ELSE IF s[i + 1] = "'" /\ i + 1 < iLimit /\ Occurs(s, sParm, i + 1)
    THEN WithValue(s, i + 1, sParm, sReplace, iLimit)
    ELSE <<s[i + 1]>> \o WithValue(s, i + 1, sParm, sReplace, iLimit)

\* the line has been parsed for one parameter that has a name
ParsedForOne == subst.at = "parsed" /\ Len(subst.aParms) = 1 /\ subst.aParms[1] # << >>

\* the line before its comment
CodeLength(s) == Len(s) - CommentLength(s)

\* C32: in a line of the text of a macro every occurrence of the name of the
\* parameter before the comment, the characters around which are no symbol
\* characters, is replaced by the value, together with the apostrophe before
\* it and the apostrophe after it, and nothing else is replaced: no part of
\* a longer symbol and no occurrence in the comment.
C32_WholeSymbols ==
    ParsedForOne =>
        subst.sLine = WithValue(subst.sText, 0, subst.aParms[1],
                                Replacement(subst.aValues, subst.aDefaults, 1),
                                CodeLength(subst.sText))

\* the statement of C32 for the lines that have neither a comment nor an
\* apostrophe, the value being no longer than the name
C32_PlainLines ==
    (/\ ParsedForOne
     /\ \A i \in 1..Len(subst.sText) : subst.sText[i] \notin {";", "'"}
     /\ Len(Replacement(subst.aValues, subst.aDefaults, 1)) <= Len(subst.aParms[1])) =>
        subst.sLine = WithValue(subst.sText, 0, subst.aParms[1],
                                Replacement(subst.aValues, subst.aDefaults, 1),
                                CodeLength(subst.sText))

\* ",;A" has been parsed, A being 1: the A of the comment was replaced
C32_InComment ==
    /\ ParsedForOne
    /\ subst.sText = <<",", ";", "A">> \o EndOfLine
    /\ subst.sLine = <<",", ";", "1">> \o EndOfLine

\* "A,A;" has been parsed, A being 111: the second A was not replaced
C32_BehindLimit ==
    /\ ParsedForOne
    /\ subst.sText = <<"A", ",", "A", ";">> \o EndOfLine
    /\ subst.sLine = <<"1", "1", "1", ",", "A", ";">> \o EndOfLine

\* the line has been parsed for the parameters A and B
ParsedForTwo == subst.at = "parsed" /\ subst.aParms = <<SymA, SymB>>

\* a whole symbol sParm is in the text s before its comment
Remains(s, sParm) == \E i \in 0..(CodeLength(s) - 1) : Occurs(s, sParm, i)

\* C39: the parameters are replaced one after the other, by their index: no
\* parameter is searched for after a later one, and the text put in for A is
\* searched for B: when the value of A is the name B, the line that has been
\* parsed has no B left before its comment, the B that came with the value
\* of A having been replaced by the value of B.
C39_Sequential ==
    []((ParsedForTwo /\ subst.aValues[1] = SymB /\ subst.aValues[2] # SymB) =>
           ~Remains(subst.sLine, SymB))
        /\ [][subst'.iParm >= subst.iParm]_vars

\* the statement of C39 for the lines that have neither a comment nor an
\* apostrophe, the values being no longer than the names: the line that has
\* been parsed is the line with A replaced by its value, and in that line,
\* the value of A included, B replaced by its value
C39_PlainLines ==
    (/\ ParsedForTwo
     /\ \A i \in 1..Len(subst.sText) : subst.sText[i] \notin {";", "'"}
     /\ Len(subst.aValues[1]) <= 1 /\ Len(subst.aValues[2]) <= 1) =>
        subst.sLine = WithValue(WithValue(subst.sText, 0, SymA, subst.aValues[1], Len(subst.sText)),
                                0, SymB, subst.aValues[2],
                                Len(WithValue(subst.sText, 0, SymA, subst.aValues[1],
                                              Len(subst.sText))))

\* "A,B" has been parsed, A being B and B being 1: the line is "1,1"
C39_ValueOfLater ==
    /\ ParsedForTwo
    /\ subst.sText = <<"A", ",", "B">> \o EndOfLine
    /\ subst.aValues = <<SymB, <<"1">>>>
    /\ subst.sLine = <<"1", ",", "1">> \o EndOfLine

\* "B,A" has been parsed, A being 1 and B being A: the line is "A,1"
C39_ValueOfEarlier ==
    /\ ParsedForTwo
    /\ subst.sText = <<"B", ",", "A">> \o EndOfLine
    /\ subst.aValues = <<<<"1">>, SymA>>
    /\ subst.sLine = <<"A", ",", "1">> \o EndOfLine

\* bit k of n, and the carry bit with regA as a quantity of 9 bits
BitOf(n, k) == (n \div (2 ^ k)) % 2
NineBits(c) == BitOf(c.resultZeroCarry, 8) * 256 + c.regA

\* the registers that are not regA, and the low 8 bits of resultZeroCarry
Untouched(c) == <<c.regB, c.regC, c.regD, c.regE, c.resultZeroCarry % 256>>

\* what opRLC and opRRC leave of the registers cpuStart, bit being the bit
\* of regA that is rotated out
RotatedOut(bit) ==
    /\ cpu.regA \in 0..255
    /\ BitOf(cpu.resultZeroCarry, 8) = BitOf(cpuStart.regA, bit)
    /\ Untouched(cpu) = Untouched(cpuStart)
    /\ DOMAIN cpu = DOMAIN cpuStart
    /\ cpu.nStepCycles = cpuStart.nStepCycles - 4

\* C40: opRLC followed by opRRC, and opRRC followed by opRLC, restore regA;
\* each of them leaves regA in 0..255, sets bit 8 of resultZeroCarry to the
\* bit that is rotated out of regA, and leaves the low 8 bits of
\* resultZeroCarry and the other registers as they are, nStepCycles being
\* 4 less; opRAL and opRAR, resultZeroCarry being less than 0x200, rotate the
\* carry bit with regA as a quantity of 9 bits, and opRAL followed by opRAR
\* restores both.
C40_Rotates ==
    /\ aOps \in {<<"RLC", "RRC">>, <<"RRC", "RLC">>} => cpu.regA = cpuStart.regA
    /\ aOps = <<"RLC">> => RotatedOut(7) /\ cpu.regA = ((cpuStart.regA * 2) % 256) + BitOf(cpuStart.regA, 7)
    /\ aOps = <<"RRC">> => RotatedOut(0) /\ cpu.regA = (cpuStart.regA \div 2) + 128 * BitOf(cpuStart.regA, 0)
    /\ (aOps = <<"RAL">> /\ cpuStart.resultZeroCarry < 512) =>
           NineBits(cpu) = ((NineBits(cpuStart) * 2) % 512) + BitOf(NineBits(cpuStart), 8)
    /\ (aOps = <<"RAR">> /\ cpuStart.resultZeroCarry < 512) =>
           NineBits(cpu) = (NineBits(cpuStart) \div 2) + 256 * BitOf(NineBits(cpuStart), 0)
    /\ (aOps = <<"RAL", "RAR">> /\ cpuStart.resultZeroCarry < 512) =>
           NineBits(cpu) = NineBits(cpuStart)

\* opRLC and then opRRC have run on regA = 0x81, the carry clear before and
\* set after
C40_Witness ==
    /\ aOps = <<"RLC", "RRC">>
    /\ cpuStart.regA = 129 /\ cpuStart.resultZeroCarry = 85
    /\ cpu.regA = 129 /\ cpu.resultZeroCarry = 341
    /\ cpu.nStepCycles = cpuStart.nStepCycles - 8

\* opRAL and then opRAR have run on regA = 0x81 with the carry set
C40_ThroughCarry ==
    /\ aOps = <<"RAL", "RAR">>
    /\ cpuStart.regA = 129 /\ cpuStart.resultZeroCarry = 341
    /\ cpu.regA = 129 /\ cpu.resultZeroCarry = 341

====
